---- MODULE Spec2Model ----
(***************************************************************************)
(* IV Swinger 2 Arduino sketch (version 1.3.10): the supervisor            *)
(* (setup()/loop()), the host messages, process_config_msg, the Voc and    *)
(* Isc polling, compute_v_and_i_scale and the sweep loop.                  *)
(*                                                                         *)
(* Arduino ints are 16 bits: every int computation the sketch makes is     *)
(* wrapped with S16/U16.  ADC reads are inputs: each read draws a value    *)
(* from the sample set of the environment the specification names.         *)
(***************************************************************************)
EXTENDS Integers, Sequences, FiniteSets, TLC

(***************************************************************************)
(* Program constants (#define lines of the sketch).                        *)
(***************************************************************************)
ADC_MAX == 4096
CH1_1ST_WEIGHT == 5
CH1_2ND_WEIGHT == 3
MIN_ISC_ADC == 100
ISC_STABLE_ADC == 5
MAX_DISCARDS == 300
MIN_VOC_ADC == 10
ASPECT_HEIGHT == 2
ASPECT_WIDTH == 3
CLK_DIV == "SPI_CLOCK_DIV8"
TOTAL_WEIGHT == CH1_1ST_WEIGHT + CH1_2ND_WEIGHT
AVG_WEIGHT == (TOTAL_WEIGHT + 1) \div 2

(***************************************************************************)
(* Bounds of the model.  The first four stand for the sketch's             *)
(* MAX_IV_POINTS (275), MAX_IV_MEAS (1000000), VOC_POLLING_LOOPS (400) and *)
(* MAX_ISC_POLL (5000), scaled down so that every loop can run to its      *)
(* limit; the others bound the host.                                       *)
(***************************************************************************)
MAX_IV_POINTS == 4
MAX_IV_MEAS == 6
VOC_POLLING_LOOPS == 5
MAX_ISC_POLL == 3
MaxSweeps == 2
MaxRx == 1

\* the bytes of EEPROM the model keeps: offset 0 up to the relay polarity slot
EepromSize == 48

(***************************************************************************)
(* 16-bit integer arithmetic.                                              *)
(***************************************************************************)
U16(x) == x % 65536

S16(x) == IF U16(x) >= 32768 THEN U16(x) - 65536 ELSE U16(x)

Abs(x) == IF x < 0 THEN -x ELSE x

\* C division truncates toward zero
CDiv(a, b) ==
  IF (a >= 0) = (b > 0) THEN Abs(a) \div Abs(b) ELSE -(Abs(a) \div Abs(b))

Bit(x, n) == (U16(x) \div (2^n)) % 2

\* (x & m) != 0
AndNZ(x, m) ==
  \E a \in {U16(x)}, b \in {U16(m)} :
    \E n \in 0..15 : Bit(a, n) = 1 /\ Bit(b, n) = 1

\* x >> s on a signed int (arithmetic shift)
Shr(x, s) == x \div (2^s)

MaxOf(S) == CHOOSE x \in S : \A y \in S : y <= x

MinOf(S) == CHOOSE x \in S : \A y \in S : x <= y

\* the element of a one-element set; {e : x \in {a}} evaluates a once and
\* names its value x, as an assignment to a C variable does
The(S) == CHOOSE x \in S : TRUE

(***************************************************************************)
(* compute_v_and_i_scale.  round_up_mask is assigned only inside the bit   *)
(* search; when no bit 4..15 of lg is set it is read uninitialized, and    *)
(* `garbage` is the value it then holds.                                   *)
(***************************************************************************)
HighBits(lg) == UNION {{b \in 4..15 : Bit(x, b) = 1} : x \in {lg}}

ShiftAmt(lg) == IF HighBits(lg) = {} THEN 0 ELSE MaxOf(HighBits(lg)) - 3

RoundUpMask(lg, garbage) ==
  IF HighBits(lg) = {} THEN garbage ELSE 2^(MaxOf(HighBits(lg)) - 4)

ShiftRound(x, mask, shift_amt) ==
  IF AndNZ(x, mask) THEN Shr(x, shift_amt) + 1 ELSE Shr(x, shift_amt)

\* a mutation of HalveIfOver: the scales are never halved
HalveIfOverNever(lg_scale, sm_scale) == <<lg_scale, sm_scale>>

\* if (lg_scale + sm_scale > 16) both >>= 1
HalveIfOver(lg_scale, sm_scale) ==
  The({IF lg + sm > 16 THEN <<Shr(lg, 1), Shr(sm, 1)>> ELSE <<lg, sm>> :
         lg \in {lg_scale}, sm \in {sm_scale}})

\* a mutation of FloorSm: lg_scale is left at 16
FloorSmKeep16(p) == IF p[2] = 0 THEN <<p[1], 1>> ELSE p

\* if (sm_scale == 0) { sm_scale = 1; if (lg_scale == 16) lg_scale = 15; }
FloorSm(p) ==
  The({IF q[2] = 0 THEN <<IF q[1] = 16 THEN 15 ELSE q[1], 1>> ELSE q :
         q \in {p}})

\* the larger of the two initial scale values
ScaleLg(isc, voc, aw, ah) ==
  IF S16(ah * voc) > S16(aw * isc) THEN S16(ah * voc) ELSE S16(aw * isc)

compute_v_and_i_scale(isc, voc, aw, ah, garbage) ==
  LET initial_v_scale == S16(aw * isc)
      initial_i_scale == S16(ah * voc)
      i_scale_gt_v_scale == initial_i_scale > initial_v_scale
      lg == ScaleLg(isc, voc, aw, ah)
      sm == IF i_scale_gt_v_scale THEN initial_v_scale ELSE initial_i_scale
      shift_amt == ShiftAmt(lg)
      mask == RoundUpMask(lg, garbage)
      p == FloorSm(HalveIfOver(ShiftRound(lg, mask, shift_amt),
                               ShiftRound(sm, mask, shift_amt)))
  IN  [v_scale |-> IF i_scale_gt_v_scale THEN p[2] ELSE p[1],
       i_scale |-> IF i_scale_gt_v_scale THEN p[1] ELSE p[2]]

(***************************************************************************)
(* Pin levels and the fixed polarities of the SSR lines.                   *)
(***************************************************************************)
SSR2_ACTIVE == "HIGH"
SSR2_INACTIVE == "LOW"
SSR3_ACTIVE == "LOW"
SSR3_INACTIVE == "HIGH"
SSR4_ACTIVE == "LOW"
SSR4_INACTIVE == "HIGH"
SSR6_ACTIVE == "LOW"
SSR6_INACTIVE == "HIGH"

Opposite(level) == IF level = "LOW" THEN "HIGH" ELSE "LOW"

(***************************************************************************)
(* State.                                                                  *)
(***************************************************************************)
VARIABLES
  pc,                    \* where the sketch is: handshake, idle, voc_poll, ...
  rx,                    \* host lines in the serial receive buffer
  out,                   \* lines printed by the latest step
  \* global tunables
  clk_div, max_iv_points, min_isc_adc, max_isc_poll, isc_stable_adc,
  max_discards, aspect_height, aspect_width,
  \* relay polarity and the digital lines
  relay_active, relay_inactive, pins,
  \* locals of loop()
  ii, adc_ch0_vals, adc_ch1_vals, pt_num, num_meas, update_prev_ch1,
  poll_timeout, skip_isc_poll, ssr3_is_active, isc_poll_loops,
  num_discarded_pts, i_scale, v_scale, isc_adc, voc_adc, adc_noise_floor,
  min_adc_noise_floor, max_adc_noise_floor, done_ch1_adc,
  adc_ch0_val_prev_prev, adc_ch0_val_prev, adc_ch0_val,
  adc_ch1_val_prev_prev, adc_ch1_val_prev, adc_ch1_val,
  min_manhattan_distance,
  \* history variables (not in the sketch)
  go_sent,               \* Go lines the host has sent
  go_cfg,                \* the tunables when the latest Go was accepted
  cfg_min_isc_adc,       \* MIN_ISC_ADC as last configured
  discarded,             \* measurement numbers the discard decision dropped
  kept_at,               \* slot -> number of the measurement it retains
  corrections,           \* voltage-decrease corrections in this sweep
  last_idx,              \* array indexes the latest sweep step wrote
  iters,                 \* sweep loop iterations in this sweep
  ch1_read,              \* the latest value read_adc returned for CH1
  samples,               \* the <<CH0, CH1>> pairs the Voc polling has read
  writes,                \* the digitalWrite calls of the latest sweep step
  polled,                \* the latest CH0 values the Isc polling loop read
  reads,                 \* the ADC reads of this sweep, where E.log asks for it
  last_sweep,            \* the reads and the report of the sweep before
  eeprom,                \* the EEPROM, byte by byte
  serial,                \* the characters waiting in the serial receive buffer
  overrun,               \* serial holds the rest of a line reported too long
  repeat,                \* "pending": serial holds the line just handled once
                         \* more; "done": that copy was handled too
  abandoned              \* the characters get_host_msg had stored when it last
                         \* timed out

tunables == <<clk_div, max_iv_points, min_isc_adc, max_isc_poll,
              isc_stable_adc, max_discards, aspect_height, aspect_width>>

relays == <<relay_active, relay_inactive, pins>>

arrays == <<adc_ch0_vals, adc_ch1_vals>>

window == <<adc_ch0_val_prev_prev, adc_ch0_val_prev, adc_ch0_val,
            adc_ch1_val_prev_prev, adc_ch1_val_prev, adc_ch1_val>>

vocvars == <<voc_adc, adc_noise_floor, min_adc_noise_floor,
             max_adc_noise_floor, done_ch1_adc>>

iscvars == <<poll_timeout, skip_isc_poll, ssr3_is_active, isc_poll_loops>>

scalevars == <<i_scale, v_scale, isc_adc, min_manhattan_distance>>

sweepvars == <<pt_num, num_meas, update_prev_ch1, num_discarded_pts>>

probes == <<samples, writes, polled, reads>>

history == <<go_cfg, cfg_min_isc_adc, discarded, kept_at, corrections,
             last_idx, iters, ch1_read, probes, last_sweep>>

locals == <<ii, arrays, window, vocvars, iscvars, scalevars, sweepvars>>

hostio == <<eeprom, serial, overrun, repeat, abandoned>>

vars == <<pc, rx, out, tunables, relays, locals, go_sent, history, hostio>>

Slots == 0 .. (MAX_IV_POINTS - 1)

ZeroArray == [k \in Slots |-> 0]

\* a[i], and a[i] = x, on int a[MAX_IV_POINTS]; an index outside the array is
\* recorded in last_idx by the step that uses it
Load(a, i) == IF i \in DOMAIN a THEN a[i] ELSE 0

Store(a, i, x) == IF i \in DOMAIN a THEN [a EXCEPT ![i] = x] ELSE a

(***************************************************************************)
(* Characters and text.  A text is a sequence of one-character strings;    *)
(* the strings of the sketch are spelled out.                              *)
(***************************************************************************)
MAX_MSG_LEN == 35

LINE_FEED == "\n"

CARRIAGE_RETURN == "\r"

SPACE == " "

ready_str == <<"R", "e", "a", "d", "y">>

config_str == <<"C", "o", "n", "f", "i", "g">>

go_str == <<"G", "o">>

clk_div_str == <<"C", "L", "K", "_", "D", "I", "V">>

max_iv_points_str ==
  <<"M", "A", "X", "_", "I", "V", "_", "P", "O", "I", "N", "T", "S">>

min_isc_adc_str == <<"M", "I", "N", "_", "I", "S", "C", "_", "A", "D", "C">>

max_isc_poll_str ==
  <<"M", "A", "X", "_", "I", "S", "C", "_", "P", "O", "L", "L">>

isc_stable_adc_str ==
  <<"I", "S", "C", "_", "S", "T", "A", "B", "L", "E", "_", "A", "D", "C">>

max_discards_str ==
  <<"M", "A", "X", "_", "D", "I", "S", "C", "A", "R", "D", "S">>

aspect_height_str ==
  <<"A", "S", "P", "E", "C", "T", "_", "H", "E", "I", "G", "H", "T">>

aspect_width_str ==
  <<"A", "S", "P", "E", "C", "T", "_", "W", "I", "D", "T", "H">>

write_eeprom_str ==
  <<"W", "R", "I", "T", "E", "_", "E", "E", "P", "R", "O", "M">>

dump_eeprom_str == <<"D", "U", "M", "P", "_", "E", "E", "P", "R", "O", "M">>

relay_state_str == <<"R", "E", "L", "A", "Y", "_", "S", "T", "A", "T", "E">>

second_relay_state_str ==
  <<"S", "E", "C", "O", "N", "D", "_", "R", "E", "L", "A", "Y", "_", "S",
    "T", "A", "T", "E">>

do_ssr_curr_cal_str ==
  <<"D", "O", "_", "S", "S", "R", "_", "C", "U", "R", "R", "_", "C", "A",
    "L">>

\* strstr(msg, pat) != NULL
StrStr(msg, pat) ==
  \E i \in 1 .. (Len(msg) - Len(pat) + 1) :
    SubSeq(msg, i, i + Len(pat) - 1) = pat

\* the tokens strtok(.., " ") returns one after the other: the maximal runs
\* of characters other than the delimiter
RECURSIVE StrTok(_, _)
StrTok(text, tok) ==
  IF text = <<>> THEN (IF tok = <<>> THEN <<>> ELSE <<tok>>)
  ELSE IF Head(text) = SPACE
  THEN (IF tok = <<>> THEN <<>> ELSE <<tok>>) \o StrTok(Tail(text), <<>>)
  ELSE StrTok(Tail(text), Append(tok, Head(text)))

Digits == <<"0", "1", "2", "3", "4", "5", "6", "7", "8", "9">>

IsDigit(c) == \E d \in 1 .. 10 : Digits[d] = c

DigitVal(c) == (CHOOSE d \in 1 .. 10 : Digits[d] = c) - 1

\* the digits a text begins with
RECURSIVE DigitRun(_)
DigitRun(text) ==
  IF text = <<>> \/ ~IsDigit(Head(text)) THEN <<>>
  ELSE <<Head(text)>> \o DigitRun(Tail(text))

RECURSIVE NumOf(_, _)
NumOf(digs, acc) ==
  IF digs = <<>> THEN acc ELSE NumOf(Tail(digs), acc * 10 + DigitVal(Head(digs)))

Signed(text) == text # <<>> /\ Head(text) \in {"-", "+"}

Unsign(text) == IF Signed(text) THEN Tail(text) ELSE text

Negative(text) == text # <<>> /\ Head(text) = "-"

\* atoi: an optional sign and the digits that follow it, up to the first
\* character that is no digit; the result is a 16-bit int
Atoi(text) ==
  LET n == NumOf(DigitRun(Unsign(text)), 0)
  IN  S16(IF Negative(text) THEN -n ELSE n)

(***************************************************************************)
(* A float is shown as the integer number of 1/10000ths it holds, which is  *)
(* exact for the decimal texts with up to four fraction digits and a       *)
(* magnitude below 1024 that the hosts of this model send: such a value    *)
(* survives the conversion to a 32-bit float and back to four decimals.    *)
(***************************************************************************)
FloatUnit == 10000

EEPROM_VALID_VALUE == 1234567890

EEPROM_RELAY_ACTIVE_HIGH_ADDR == 44

SizeofFloat == 4

\* atof: sign, digits, and after a "." the fraction digits
Atof(text) ==
  LET body == Unsign(text)
      ip == DigitRun(body)
      rest == SubSeq(body, Len(ip) + 1, Len(body))
      fp == IF rest # <<>> /\ Head(rest) = "." THEN DigitRun(Tail(rest))
            ELSE <<>>
      fp4 == SubSeq(fp \o <<"0", "0", "0", "0">>, 1, 4)
      n == NumOf(ip, 0) * FloatUnit + NumOf(fp4, 0)
  IN  IF Negative(text) THEN -n ELSE n

\* (int)value: the fraction is dropped
FloatToInt(v) == CDiv(v, FloatUnit)

RECURSIVE Itoa(_)
Itoa(n) ==
  IF n < 10 THEN <<Digits[n + 1]>>
  ELSE Append(Itoa(n \div 10), Digits[(n % 10) + 1])

\* Serial.println(value, 4) of a float that reads <<v>>, or "nan"
Print4(f) ==
  IF f = <<>> THEN <<"n", "a", "n">>
  ELSE LET v == f[1]
           m == Abs(v)
           fr == Itoa(m % FloatUnit)
           pad == SubSeq(<<"0", "0", "0">>, 1, 4 - Len(fr))
       IN  (IF v < 0 THEN <<"-">> ELSE <<>>) \o Itoa(m \div FloatUnit)
             \o <<".">> \o pad \o fr

(***************************************************************************)
(* The EEPROM holds floats at the multiples of sizeof(float); a slot reads  *)
(* <<v>> after v was put there and <<>>, which is no number, while it is   *)
(* erased.  The hosts of this model write whole slots only; a put that     *)
(* straddles two slots leaves both unreadable, and one beyond the last     *)
(* slot is lost.                                                           *)
(***************************************************************************)
EepromSlots == {a \in 0 .. (EepromSize - 1) : a % SizeofFloat = 0}

Erased == [a \in EepromSlots |-> <<>>]

\* EEPROM.put(addr, value)
EepromPut(store, addr, v) ==
  [a \in EepromSlots |->
     IF a = addr THEN <<v>>
     ELSE IF addr - SizeofFloat < a /\ a < addr + SizeofFloat THEN <<>>
     ELSE store[a]]

\* EEPROM.get(addr, value)
EepromGet(store, addr) == IF addr \in EepromSlots THEN store[addr] ELSE <<>>

\* (int)eeprom_value of the count slot; the conversion of a float that is no
\* number is undefined and may give any of these
NanInts == {-32768, 0, 32767}

EepromCounts(store) ==
  IF EepromGet(store, SizeofFloat) = <<>> THEN NanInts
  ELSE {FloatToInt(EepromGet(store, SizeofFloat)[1])}

\* a mutation of dump_eeprom: the loop ends two slots early
dump_eepromShort(store, count) ==
  IF EepromGet(store, 0) = <<EEPROM_VALID_VALUE>>
  THEN LET limit == U16(count * SizeofFloat)
           n == Cardinality({a \in EepromSlots : a < limit})
       IN  [k \in 1 .. n |->
              <<"EEPROM addr", (k - 1) * SizeofFloat, "value",
                Print4(EepromGet(store, (k - 1) * SizeofFloat))>>]
  ELSE <<>>

\* dump_eeprom: the lines it prints, count being (int) of the count slot
dump_eeprom(store, count) ==
  IF EepromGet(store, 0) = <<EEPROM_VALID_VALUE>>
  THEN LET limit == U16((count + 2) * SizeofFloat)
           n == Cardinality({a \in EepromSlots : a < limit})
       IN  [k \in 1 .. n |->
              <<"EEPROM addr", (k - 1) * SizeofFloat, "value",
                Print4(EepromGet(store, (k - 1) * SizeofFloat))>>]
  ELSE <<>>

\* get_relay_active_val: the level that closes the relay
get_relay_active_val(store, count) ==
  IF EepromGet(store, 0) = <<EEPROM_VALID_VALUE>>
  THEN IF U16((count + 1) * SizeofFloat) >= EEPROM_RELAY_ACTIVE_HIGH_ADDR
       THEN (IF EepromGet(store, EEPROM_RELAY_ACTIVE_HIGH_ADDR) = <<0>>
             THEN "LOW" ELSE "HIGH")
       ELSE "LOW"
  ELSE "LOW"

(***************************************************************************)
(* Host lines.  A line is <<"Ready">>, <<"Go">> or <<"Config", key, args>>  *)
(* with args the sequence of the numbers its value tokens spell.           *)
(***************************************************************************)
ReadyLine == <<"Ready">>

GoLine == <<"Go">>

ConfigLine(key, args) == <<"Config", key, args>>

\* a mutation of IsReady: the handshake also takes a Go line for the answer
IsReadyOrGo(line) == line[1] \in {"Ready", "Go"}

IsReady(line) == line[1] = "Ready"

IsGo(line) == line[1] = "Go"

IsConfig(line) == line[1] = "Config"

TunableKeys == {"CLK_DIV", "MAX_IV_POINTS", "MIN_ISC_ADC", "MAX_ISC_POLL",
                "ISC_STABLE_ADC", "MAX_DISCARDS", "ASPECT_HEIGHT",
                "ASPECT_WIDTH"}

RelayKeys == {"RELAY_STATE", "SECOND_RELAY_STATE"}

EepromKeys == {"WRITE_EEPROM", "DUMP_EEPROM"}

ConfigKeys == TunableKeys \cup RelayKeys \cup EepromKeys \cup {"DO_SSR_CURR_CAL"}

\* exp_args of the branch of process_config_msg that the key selects
ExpArgs(key) ==
  IF key = "WRITE_EEPROM" THEN 2
  ELSE IF key \in {"DUMP_EEPROM", "DO_SSR_CURR_CAL"} THEN 0
  ELSE 1

\* a mutation of ClampMaxIvPoints: the value is taken as sent
ClampMaxIvPointsNone(val) == val

\* max_iv_points = atoi(config_val); if (> MAX_IV_POINTS) = MAX_IV_POINTS
ClampMaxIvPoints(val) == IF val > MAX_IV_POINTS THEN MAX_IV_POINTS ELSE val

\* a mutation of ConfigVerdict: the number of values is not compared
ConfigVerdictAnyCount(key, args) ==
  IF Len(args) > 2 THEN "too_many_fields"
  ELSE IF key \notin ConfigKeys THEN "unknown"
  ELSE IF key \in EepromKeys /\ Len(args) # ExpArgs(key) THEN "wrong_arg_cnt"
  ELSE "processed"

\* what process_config_msg does with the fields of one Config line
ConfigVerdict(key, args) ==
  IF Len(args) > 2 THEN "too_many_fields"
  ELSE IF key \notin ConfigKeys THEN "unknown"
  ELSE IF Len(args) # ExpArgs(key) THEN "wrong_arg_cnt"
  ELSE "processed"

\* a mutation of ConfigOut: the verdict is never the acknowledgement
ConfigOutNoAck(key, args) == << <<"Config not processed">> >>

ConfigOut(key, args) ==
  CASE ConfigVerdict(key, args) = "too_many_fields" ->
         << <<"ERROR: Too many fields in config message">>,
            <<"Config not processed">> >>
    [] ConfigVerdict(key, args) = "unknown" ->
         << <<"ERROR: Unknown config type", key>>,
            <<"Config not processed">> >>
    [] ConfigVerdict(key, args) = "wrong_arg_cnt" ->
         << <<"ERROR: Expected args", ExpArgs(key), key, Len(args)>>,
            <<"Config not processed">> >>
    [] OTHER -> << <<"Config processed">> >>

\* do_ssr_curr_cal: what it may print, by the current the ADC reads.  The
\* saturation message is printed without a line end.
SsrCalSaturated == <<"SSR current calibration: ADC saturated">>

do_ssr_curr_cal ==
  { <<SsrCalSaturated>>,
    << <<"SSR current calibration ADC not stable">> >>,
    << <<"SSR current calibration ADC value">> >> }

\* what the branch of a processed key prints before the verdict
ConfigPrints(key, args) ==
  IF ConfigVerdict(key, args) # "processed" THEN {<<>>}
  ELSE IF key = "DUMP_EEPROM"
  THEN {dump_eeprom(eeprom, count) : count \in EepromCounts(eeprom)}
  ELSE IF key = "DO_SSR_CURR_CAL" THEN do_ssr_curr_cal
  ELSE {<<>>}

\* the printout continued by more lines: an unfinished line takes the first
PrintAfter(printed, lines) ==
  IF printed # <<>> /\ printed[Len(printed)] = SsrCalSaturated
  THEN SubSeq(printed, 1, Len(printed) - 1)
         \o <<SsrCalSaturated \o Head(lines)>> \o Tail(lines)
  ELSE printed \o lines

\* a mutation of SetRelayState: an active request flips the line
SetRelayStateToggle(p, active) ==
  [p EXCEPT !["RELAY_PIN"] = IF active THEN Opposite(p["RELAY_PIN"])
                             ELSE relay_inactive]

\* digitalWrite sequences of set_relay_state and set_second_relay_state
SetRelayState(p, active) ==
  [p EXCEPT !["RELAY_PIN"] = IF active THEN relay_active ELSE relay_inactive]

SetSecondRelayState(p, active) ==
  IF active
  THEN [p EXCEPT !["SSR6_PIN"] = SSR6_INACTIVE,
                 !["SECOND_RELAY_PIN"] = relay_active]
  ELSE [p EXCEPT !["SECOND_RELAY_PIN"] = relay_inactive,
                 !["SSR6_PIN"] = SSR6_ACTIVE]

\* the lines as do_ssr_curr_cal leaves them
SsrCalPins(p) ==
  [p EXCEPT !["RELAY_PIN"] = relay_inactive, !["SSR2_PIN"] = SSR2_ACTIVE,
            !["SSR3_PIN"] = SSR3_INACTIVE, !["SSR4_PIN"] = SSR4_INACTIVE]

\* relay_active = (eeprom_value == LOW) ? LOW : HIGH
RelayActiveOf(value) == IF value = 0 THEN "LOW" ELSE "HIGH"

\* the WRITE_EEPROM branch: the store, the polarity and the relay lines
WriteEeprom(addr, value) ==
  /\ eeprom' = EepromPut(eeprom, addr, value)
  /\ IF addr = EEPROM_RELAY_ACTIVE_HIGH_ADDR
     THEN /\ relay_active' = RelayActiveOf(value)
          /\ relay_inactive' = Opposite(RelayActiveOf(value))
          /\ pins' = [pins EXCEPT
                        !["RELAY_PIN"] = Opposite(RelayActiveOf(value)),
                        !["SECOND_RELAY_PIN"] = Opposite(RelayActiveOf(value))]
     ELSE UNCHANGED <<relay_active, relay_inactive, pins>>

\* process_config_msg: the new values of the globals, the store and the lines
ProcessConfigMsg(key, args) ==
  LET ok == ConfigVerdict(key, args) = "processed"
      val == IF Len(args) >= 1 THEN args[1] ELSE 0
      set(k, cur, new) == IF ok /\ key = k THEN new ELSE cur
  IN  /\ clk_div' = set("CLK_DIV", clk_div, val)
      /\ max_iv_points' = set("MAX_IV_POINTS", max_iv_points,
                              ClampMaxIvPoints(val))
      /\ min_isc_adc' = set("MIN_ISC_ADC", min_isc_adc, val)
      /\ max_isc_poll' = set("MAX_ISC_POLL", max_isc_poll, val)
      /\ isc_stable_adc' = set("ISC_STABLE_ADC", isc_stable_adc, val)
      /\ max_discards' = set("MAX_DISCARDS", max_discards, val)
      /\ aspect_height' = set("ASPECT_HEIGHT", aspect_height, val)
      /\ aspect_width' = set("ASPECT_WIDTH", aspect_width, val)
      /\ cfg_min_isc_adc' = set("MIN_ISC_ADC", cfg_min_isc_adc, val)
      /\ IF ok /\ key = "WRITE_EEPROM"
         THEN WriteEeprom(args[1], args[2])
         ELSE /\ pins' = set("RELAY_STATE",
                             set("SECOND_RELAY_STATE",
                                 set("DO_SSR_CURR_CAL", pins, SsrCalPins(pins)),
                                 SetSecondRelayState(pins, val # 0)),
                             SetRelayState(pins, val # 0))
              /\ UNCHANGED <<relay_active, relay_inactive, eeprom>>

(***************************************************************************)
(* The state of the locals of loop() on entry: the declared initializers;  *)
(* a local declared without one is not read before it is assigned and is   *)
(* shown as 0.                                                             *)
(***************************************************************************)
LoopLocalsInit ==
  /\ ii = 0
  /\ adc_ch0_vals = ZeroArray
  /\ adc_ch1_vals = ZeroArray
  /\ pt_num = 1
  /\ num_meas = 1
  /\ update_prev_ch1 = FALSE
  /\ poll_timeout = FALSE
  /\ skip_isc_poll = FALSE
  /\ ssr3_is_active = TRUE
  /\ isc_poll_loops = 0
  /\ num_discarded_pts = 0
  /\ i_scale = 0
  /\ v_scale = 0
  /\ adc_noise_floor = 0
  /\ min_adc_noise_floor = 0
  /\ max_adc_noise_floor = 0
  /\ done_ch1_adc = 0
  /\ adc_ch0_val_prev_prev = 0
  /\ adc_ch0_val_prev = 0
  /\ adc_ch0_val = 0
  /\ adc_ch1_val_prev_prev = 0
  /\ adc_ch1_val_prev = 0
  /\ adc_ch1_val = 0
  /\ min_manhattan_distance = 0

HistoryInit ==
  /\ go_cfg = tunables
  /\ discarded = {}
  /\ kept_at = ZeroArray
  /\ corrections = 0
  /\ last_idx = {}
  /\ iters = 0
  /\ ch1_read = 0
  /\ samples = <<>>
  /\ writes = <<>>
  /\ polled = <<>>
  /\ reads = <<>>
  /\ last_sweep = <<>>

\* the same, as the next state (loop() is entered again)
LoopLocalsReset ==
  /\ ii' = 0
  /\ adc_ch0_vals' = ZeroArray
  /\ adc_ch1_vals' = ZeroArray
  /\ pt_num' = 1
  /\ num_meas' = 1
  /\ update_prev_ch1' = FALSE
  /\ poll_timeout' = FALSE
  /\ skip_isc_poll' = FALSE
  /\ ssr3_is_active' = TRUE
  /\ isc_poll_loops' = 0
  /\ num_discarded_pts' = 0
  /\ i_scale' = 0
  /\ v_scale' = 0
  /\ isc_adc' = 0
  /\ voc_adc' = 0
  /\ adc_noise_floor' = 0
  /\ min_adc_noise_floor' = 0
  /\ max_adc_noise_floor' = 0
  /\ done_ch1_adc' = 0
  /\ adc_ch0_val_prev_prev' = 0
  /\ adc_ch0_val_prev' = 0
  /\ adc_ch0_val' = 0
  /\ adc_ch1_val_prev_prev' = 0
  /\ adc_ch1_val_prev' = 0
  /\ adc_ch1_val' = 0
  /\ min_manhattan_distance' = 0
  /\ discarded' = {}
  /\ kept_at' = ZeroArray
  /\ corrections' = 0
  /\ last_idx' = {}
  /\ iters' = 0
  /\ ch1_read' = 0
  /\ samples' = <<>>
  /\ writes' = <<>>
  /\ polled' = <<>>
  /\ reads' = <<>>

(***************************************************************************)
(* Init: setup() has initialized the lines, printed the version and the    *)
(* first "Ready", and waits in get_host_msg.  The EEPROM is unprogrammed.   *)
(***************************************************************************)
\* the digital lines as setup() drives them
SetupPins(inactive) ==
  [RELAY_PIN |-> inactive, SECOND_RELAY_PIN |-> inactive,
   SSR2_PIN |-> SSR2_ACTIVE, SSR3_PIN |-> SSR3_INACTIVE,
   SSR4_PIN |-> SSR4_ACTIVE, SSR6_PIN |-> SSR6_ACTIVE]

Banner == << <<"IV Swinger2 sketch version">>, <<"Ready">> >>

GlobalsInit ==
  /\ rx = <<>>
  /\ out = Banner
  /\ clk_div = CLK_DIV
  /\ max_iv_points = MAX_IV_POINTS
  /\ min_isc_adc = MIN_ISC_ADC
  /\ max_isc_poll = MAX_ISC_POLL
  /\ isc_stable_adc = ISC_STABLE_ADC
  /\ max_discards = MAX_DISCARDS
  /\ \E count \in EepromCounts(eeprom) :
       relay_active = get_relay_active_val(eeprom, count)
  /\ relay_inactive = Opposite(relay_active)
  /\ pins = SetupPins(relay_inactive)
  /\ serial = <<>>
  /\ overrun = FALSE
  /\ repeat = "no"
  /\ abandoned = <<>>
  /\ LoopLocalsInit
  /\ go_sent = 0
  /\ cfg_min_isc_adc = MIN_ISC_ADC
  /\ HistoryInit

Init ==
  /\ pc = "handshake"
  /\ eeprom = Erased
  /\ aspect_height = ASPECT_HEIGHT
  /\ aspect_width = ASPECT_WIDTH
  /\ isc_adc = 0
  /\ voc_adc = 0
  /\ GlobalsInit

(***************************************************************************)
(* The host puts a line into the serial buffer.  E is the environment:     *)
(* E.lines the lines the host may send, E.anytime whether it also sends    *)
(* while the sketch is not reading.                                        *)
(***************************************************************************)
HostSend(E) ==
  /\ Len(rx) < MaxRx
  /\ E.anytime \/ pc \in {"handshake", "idle"}
  /\ \E line \in E.lines :
       /\ IsGo(line) => go_sent < MaxSweeps
       /\ rx' = Append(rx, line)
       /\ go_sent' = IF IsGo(line) THEN go_sent + 1 ELSE go_sent
  /\ UNCHANGED <<pc, out, tunables, relays, locals, history, hostio>>

Received(line) == <<"Received host message", line>>

SupportLines ==
  << <<"DS18B20 temperature sensor is NOT supported">>,
     <<"ADS1115-based pyranometer is NOT supported">>,
     <<"Debug capture of unfiltered IV points is NOT supported">>,
     <<"MAX_IV_POINTS", MAX_IV_POINTS, "max_iv_points", max_iv_points>> >>

WaitingLine == <<"Waiting for go message or config message">>

(***************************************************************************)
(* setup(): one pass of the handshake loop with a message received; line   *)
(* is what the message says and echo is what the sketch prints of it.      *)
(***************************************************************************)
HandshakeLine(line, echo) ==
  /\ IF IsReady(line)
     THEN /\ pc' = "idle"
          /\ out' = <<Received(echo)>> \o SupportLines \o <<WaitingLine>>
          /\ UNCHANGED <<tunables, relays, cfg_min_isc_adc, eeprom>>
     ELSE IF IsConfig(line)
     THEN /\ pc' = "handshake"
          /\ \E printed \in ConfigPrints(line[2], line[3]) :
               out' = <<Received(echo)>>
                        \o PrintAfter(printed, ConfigOut(line[2], line[3]))
                        \o << <<"Ready">> >>
          /\ ProcessConfigMsg(line[2], line[3])
     ELSE /\ pc' = "handshake"
          /\ out' = << Received(echo), <<"Ready">> >>
          /\ UNCHANGED <<tunables, relays, cfg_min_isc_adc, eeprom>>
  /\ UNCHANGED <<locals, go_sent, go_cfg, discarded, kept_at, corrections,
                 last_idx, iters,
                 ch1_read, probes, last_sweep>>

HandshakeMsg ==
  /\ pc = "handshake"
  /\ rx # <<>>
  /\ rx' = Tail(rx)
  /\ HandshakeLine(Head(rx), Head(rx))
  /\ UNCHANGED <<serial, overrun, repeat, abandoned>>

\* get_host_msg timed out with nothing received: "Ready" is printed again
HandshakeTimeout ==
  /\ pc = "handshake"
  /\ rx = <<>>
  /\ out' = << <<"Ready">> >>
  /\ UNCHANGED <<pc, rx, hostio, tunables, relays, locals, go_sent, history>>

(***************************************************************************)
(* loop(): one pass of the wait loop with a message received.  On Go the   *)
(* sketch leaves the wait loop and prepares the Voc polling.               *)
(***************************************************************************)
IdleLine(line, echo) ==
  /\ IF IsGo(line)
     THEN /\ pc' = "voc_poll"
          /\ out' = <<Received(echo)>>
          /\ voc_adc' = 0
          /\ adc_noise_floor' = ADC_MAX
          /\ min_adc_noise_floor' = ADC_MAX
          /\ max_adc_noise_floor' = 0
          /\ adc_ch0_vals' = ZeroArray
          /\ adc_ch1_vals' = ZeroArray
          /\ ii' = 0
          /\ go_cfg' = tunables
          /\ UNCHANGED <<tunables, relays, cfg_min_isc_adc, done_ch1_adc,
                         eeprom>>
     ELSE IF IsConfig(line)
     THEN /\ pc' = "idle"
          /\ \E printed \in ConfigPrints(line[2], line[3]) :
               out' = <<Received(echo)>>
                        \o PrintAfter(printed, ConfigOut(line[2], line[3]))
          /\ ProcessConfigMsg(line[2], line[3])
          /\ UNCHANGED <<ii, arrays, vocvars, go_cfg>>
     ELSE /\ pc' = "idle"
          /\ out' = <<Received(echo)>>
          /\ UNCHANGED <<tunables, relays, cfg_min_isc_adc, ii, arrays,
                         vocvars, go_cfg, eeprom>>
  /\ UNCHANGED <<window, iscvars, scalevars, sweepvars, go_sent, discarded,
                 kept_at, corrections, last_idx, iters,
                 ch1_read, probes, last_sweep>>

IdleMsg ==
  /\ pc = "idle"
  /\ rx # <<>>
  /\ rx' = Tail(rx)
  /\ IdleLine(Head(rx), Head(rx))
  /\ UNCHANGED <<serial, overrun, repeat, abandoned>>

(***************************************************************************)
(* get_host_msg, character by character: the message up to the line feed,  *)
(* or the report that the line is too long, or the timeout when the buffer *)
(* runs empty.  rest is what stays in the serial buffer.                   *)
(***************************************************************************)
RECURSIVE GetHostMsgLoop(_, _)
GetHostMsgLoop(buffer, msg) ==
  IF buffer = <<>>
  THEN [received |-> FALSE, too_long |-> FALSE, msg |-> msg, rest |-> <<>>]
  ELSE IF Head(buffer) = LINE_FEED
  THEN [received |-> TRUE, too_long |-> FALSE, msg |-> msg,
        rest |-> Tail(buffer)]
  ELSE IF Len(msg) = MAX_MSG_LEN - 1
  THEN [received |-> FALSE, too_long |-> TRUE, msg |-> msg,
        rest |-> Tail(buffer)]
  ELSE GetHostMsgLoop(Tail(buffer), Append(msg, Head(buffer)))

get_host_msg(buffer) == GetHostMsgLoop(buffer, <<>>)

(***************************************************************************)
(* get_host_msg, poll by poll.  The input is a sequence of <<gap, c>>: the *)
(* character c becomes available after gap polls that found no character.  *)
(* msg_timer is MSG_TIMER_TIMEOUT at the call and after every character    *)
(* stored, and is decremented by every poll that finds none; the loop      *)
(* ends when it is 0.  No character comes after the last of the input.     *)
(***************************************************************************)
MSG_TIMER_TIMEOUT == 1000

\* a mutation of MsgAtCall: the characters of the call before are still there
MsgKept == abandoned

\* char_num = 0: the call has stored no character
MsgAtCall == <<>>

RECURSIVE GetHostMsgPolls(_, _)
GetHostMsgPolls(arriving, msg) ==
  IF arriving = <<>>
  THEN [received |-> FALSE, too_long |-> FALSE, msg |-> msg, rest |-> <<>>]
  ELSE LET gap == Head(arriving)[1]
           c == Head(arriving)[2]
       IN  IF ~(gap < MSG_TIMER_TIMEOUT)
           THEN [received |-> FALSE, too_long |-> FALSE, msg |-> msg,
                 rest |-> << <<gap - MSG_TIMER_TIMEOUT, c>> >>
                            \o Tail(arriving)]
           ELSE IF c = LINE_FEED
           THEN [received |-> TRUE, too_long |-> FALSE, msg |-> msg,
                 rest |-> Tail(arriving)]
           ELSE IF Len(msg) = MAX_MSG_LEN - 1
           THEN [received |-> FALSE, too_long |-> TRUE, msg |-> msg,
                 rest |-> Tail(arriving)]
           ELSE GetHostMsgPolls(Tail(arriving), Append(msg, c))

\* the key that strcmp_P finds config_type to be
KeyOf(tok) ==
  CASE tok = clk_div_str -> "CLK_DIV"
    [] tok = max_iv_points_str -> "MAX_IV_POINTS"
    [] tok = min_isc_adc_str -> "MIN_ISC_ADC"
    [] tok = max_isc_poll_str -> "MAX_ISC_POLL"
    [] tok = isc_stable_adc_str -> "ISC_STABLE_ADC"
    [] tok = max_discards_str -> "MAX_DISCARDS"
    [] tok = aspect_height_str -> "ASPECT_HEIGHT"
    [] tok = aspect_width_str -> "ASPECT_WIDTH"
    [] tok = write_eeprom_str -> "WRITE_EEPROM"
    [] tok = dump_eeprom_str -> "DUMP_EEPROM"
    [] tok = relay_state_str -> "RELAY_STATE"
    [] tok = second_relay_state_str -> "SECOND_RELAY_STATE"
    [] tok = do_ssr_curr_cal_str -> "DO_SSR_CURR_CAL"
    [] OTHER -> "UNKNOWN"

\* what a char* that was never assigned may point to
GarbageKeys == ConfigKeys \cup {"UNKNOWN"}

GarbageVals == {0, EEPROM_RELAY_ACTIVE_HIGH_ADDR}

(***************************************************************************)
(* The token loop of process_config_msg.  The first token is dropped; the  *)
(* token at place 0 is the key, at 1 and 2 the values, and a later one is  *)
(* one too many.  A token that begins with a carriage return is passed     *)
(* over but holds its place.  The result is the set of Config lines the    *)
(* message may stand for: one, unless an unassigned pointer is used.       *)
(***************************************************************************)
ConfigFields(msg) ==
  LET fields == Tail(StrTok(msg, <<>>))
      taken(i) == i <= Len(fields) /\ Head(fields[i]) # CARRIAGE_RETURN
      num_args == IF taken(3) THEN 2 ELSE IF taken(2) THEN 1 ELSE 0
      keys == IF taken(1) THEN {KeyOf(fields[1])} ELSE GarbageKeys
      vals == IF taken(2) THEN {Atoi(fields[2])} ELSE GarbageVals
      val2(key) == IF key = "WRITE_EEPROM" THEN Atof(fields[3])
                   ELSE Atoi(fields[3])
  IN  IF \E i \in 4 .. Len(fields) : taken(i)
      THEN {ConfigLine("UNKNOWN", <<0, 0, 0>>)}
      ELSE IF num_args = 0 THEN {ConfigLine(key, <<>>) : key \in keys}
      ELSE IF num_args = 1
      THEN {ConfigLine(key, <<val>>) : key \in keys, val \in vals}
      ELSE {ConfigLine(key, <<val, val2(key)>>) : key \in keys, val \in vals}

OtherLine == <<"Other">>

\* what the wait loop in state at makes of a received message
Frames(msg, at) ==
  IF at = "handshake" /\ StrStr(msg, ready_str) THEN {ReadyLine}
  ELSE IF at = "idle" /\ StrStr(msg, go_str) THEN {GoLine}
  ELSE IF StrStr(msg, config_str) THEN ConfigFields(msg)
  ELSE {OtherLine}

(***************************************************************************)
(* The host writes the characters of one line to the serial port when the  *)
(* buffer is empty, or those of a line of E.twice two times over.          *)
(***************************************************************************)
HostType(E) ==
  /\ serial = <<>>
  /\ pc \in {"handshake", "idle"}
  /\ \/ \E text \in E.texts : serial' = text
     \/ \E text \in E.twice : serial' = text \o text
  /\ overrun' = FALSE
  /\ repeat' = "no"
  /\ UNCHANGED <<pc, rx, out, tunables, relays, locals, go_sent, history,
                 eeprom, abandoned>>

(***************************************************************************)
(* One pass of the wait loop of setup() or of loop() over the characters   *)
(* in the serial buffer.                                                   *)
(***************************************************************************)
WaitLoopPass ==
  /\ pc \in {"handshake", "idle"}
  /\ serial # <<>>
  /\ \E r \in {get_host_msg(serial)} :
       /\ serial' = r.rest
       /\ overrun' = ((r.too_long \/ overrun) /\ r.rest # <<>>)
       /\ abandoned' = IF r.received \/ r.too_long THEN abandoned ELSE r.msg
       /\ repeat' = IF r.received /\ serial = r.rest \o r.rest THEN "pending"
                    ELSE IF repeat = "pending" THEN "done"
                    ELSE "no"
       /\ IF r.received
          THEN \E line \in Frames(r.msg, pc) :
                 IF pc = "handshake" THEN HandshakeLine(line, r.msg)
                 ELSE IdleLine(line, r.msg)
          ELSE /\ out' = (IF r.too_long
                          THEN << <<"ERROR: Host message too long", r.msg>> >>
                          ELSE <<>>)
                         \o (IF pc = "handshake" THEN << <<"Ready">> >>
                             ELSE <<>>)
               /\ UNCHANGED <<pc, tunables, relays, locals, go_sent, history,
                              eeprom>>
  /\ UNCHANGED rx

(***************************************************************************)
(* Voc polling.  The retained arrays serve as a counting table: CH0 slots  *)
(* hold voltage values, CH1 slots their counts.  Both table loops run      *)
(* while index < sizeof(adc_ch0_vals), the size in bytes.                  *)
(***************************************************************************)
SizeofVals == 2 * MAX_IV_POINTS

\* the index the count-update loop stops at for voltage v (SizeofVals when
\* it runs off the end without updating)
RECURSIVE TableIndex(_, _, _, _)
TableIndex(ch0s, ch1s, v, index) ==
  IF ~(index < SizeofVals) THEN index
  ELSE IF Load(ch1s, index) = 0 THEN index
  ELSE IF Load(ch0s, index) = v THEN index
  ELSE TableIndex(ch0s, ch1s, v, index + 1)

\* the mode scan: <<voc_adc, max_count>> after scanning from index
RECURSIVE VocScan(_, _, _, _, _)
VocScan(ch0s, ch1s, index, voc, max_count) ==
  IF ~(index < SizeofVals) THEN voc
  ELSE IF Load(ch1s, index) = 0 THEN voc
  ELSE IF Load(ch1s, index) > max_count
       THEN VocScan(ch0s, ch1s, index + 1, Load(ch0s, index),
                    Load(ch1s, index))
       ELSE VocScan(ch0s, ch1s, index + 1, voc, max_count)

\* the lines after the digitalWrite calls ws, made in this order
RECURSIVE Drive(_, _)
Drive(p, ws) ==
  IF ws = <<>> THEN p
  ELSE Drive([p EXCEPT ![Head(ws)[1]] = Head(ws)[2]], Tail(ws))

\* a mutation of ArmWrites: the relay is activated before SSR3
ArmWritesRelayFirst ==
  << <<"RELAY_PIN", relay_active>>,
     <<"SSR3_PIN", SSR3_ACTIVE>>,
     <<"SSR2_PIN", SSR2_INACTIVE>> >>

\* the writes of the else branch of if (voc_adc < MIN_VOC_ADC)
ArmWrites ==
  << <<"SSR3_PIN", SSR3_ACTIVE>>,
     <<"RELAY_PIN", relay_active>>,
     <<"SSR2_PIN", SSR2_INACTIVE>> >>

\* the writes of the Isc polling when three equal voltages are seen
ReleaseWrites ==
  << <<"SSR3_PIN", SSR3_INACTIVE>>, <<"SSR4_PIN", SSR4_INACTIVE>> >>

\* a mutation of BleedWrites: the return to bleed switches SSR2 off
BleedWritesSsr2Off ==
  << <<"RELAY_PIN", relay_inactive>>, <<"SSR2_PIN", SSR2_INACTIVE>>,
     <<"SSR4_PIN", SSR4_ACTIVE>> >>

\* the writes after the sweep loop
BleedWrites ==
  << <<"RELAY_PIN", relay_inactive>>,
     <<"SSR2_PIN", SSR2_ACTIVE>>,
     <<"SSR4_PIN", SSR4_ACTIVE>> >>

\* the last n elements of seq
LastOf(seq, n) ==
  IF Len(seq) <= n THEN seq ELSE SubSeq(seq, Len(seq) - n + 1, Len(seq))

\* the reads of a step added to the log, in an environment that keeps one
Logged(E, entries) == IF E.log THEN reads \o entries ELSE reads

\* the indexes the count-update loop can stop at for voltage v: the first
\* empty or matching slot of the table.  When every slot holds another value
\* the loop reads on behind the arrays (index < sizeof(adc_ch0_vals) is its
\* only bound), where the values it meets are not defined: it stops at any
\* index up to the size in bytes, or runs off the end
TableStops(ch0s, ch1s, v) ==
  IF TableIndex(ch0s, ch1s, v, 0) < MAX_IV_POINTS
  THEN {TableIndex(ch0s, ch1s, v, 0)}
  ELSE MAX_IV_POINTS .. SizeofVals

\* the index at which the mode scan meets its first zero count; with no
\* empty slot in the table that is an index behind the arrays
ScanStop(ch1s) == MinOf({k \in 0 .. MAX_IV_POINTS : Load(ch1s, k) = 0})

\* the values the mode scan can end with: the mode of the table, or, when
\* the scan reads on behind the arrays, also a value found there
VocScans(ch0s, ch1s, voc) ==
  IF ScanStop(ch1s) < MAX_IV_POINTS
  THEN {VocScan(ch0s, ch1s, 0, voc, 0)}
  ELSE {VocScan(ch0s, ch1s, 0, voc, 0), 0, ADC_MAX - 1}

VocPollStep(E) ==
  /\ pc = "voc_poll"
  /\ ii < VOC_POLLING_LOOPS
  /\ \E v \in E.voc0, c \in E.voc1 :
     \E index \in TableStops(adc_ch0_vals, adc_ch1_vals, v) :
       LET empty == Load(adc_ch1_vals, index) = 0
       IN  /\ adc_ch0_val' = v
           /\ adc_ch1_val' = c
           /\ ch1_read' = c
           /\ samples' = Append(samples, <<v, c>>)
           /\ reads' = Logged(E, << <<"voc", v, c>> >>)
           /\ IF index < SizeofVals
              THEN /\ adc_ch0_vals' = IF empty
                                      THEN Store(adc_ch0_vals, index, v)
                                      ELSE adc_ch0_vals
                   /\ adc_ch1_vals' =
                        Store(adc_ch1_vals, index,
                              IF empty THEN 1
                              ELSE S16(Load(adc_ch1_vals, index) + 1))
                   /\ last_idx' = {index}
              ELSE /\ UNCHANGED arrays
                   /\ last_idx' = {SizeofVals - 1}
           /\ min_adc_noise_floor' =
                IF c < min_adc_noise_floor THEN c ELSE min_adc_noise_floor
           /\ max_adc_noise_floor' =
                IF c > max_adc_noise_floor THEN c ELSE max_adc_noise_floor
  /\ ii' = ii + 1
  /\ out' = <<>>
  /\ writes' = <<>>
  /\ UNCHANGED <<polled, last_sweep>>
  /\ UNCHANGED <<pc, rx, hostio, tunables, relays, voc_adc, adc_noise_floor,
                 done_ch1_adc, adc_ch0_val_prev_prev, adc_ch0_val_prev,
                 adc_ch1_val_prev_prev, adc_ch1_val_prev, iscvars, scalevars,
                 sweepvars, go_sent, go_cfg, cfg_min_isc_adc, discarded,
                 kept_at, corrections, iters>>

\* done_ch1_adc = adc_noise_floor << 1; if (done_ch1_adc < 20) = 20
DoneCh1(noise_floor) ==
  IF S16(noise_floor * 2) < 20 THEN 20 ELSE S16(noise_floor * 2)

\* min_isc_adc += adc_noise_floor
RaiseMinIsc(cur, noise_floor) == S16(cur + noise_floor)

(***************************************************************************)
(* After the Voc polling: the mode, the noise floor, the thresholds, the   *)
(* not-connected test and the relay activation.                            *)
(***************************************************************************)
VocDone ==
  /\ pc = "voc_poll"
  /\ ~(ii < VOC_POLLING_LOOPS)
  /\ \E voc \in VocScans(adc_ch0_vals, adc_ch1_vals, voc_adc) :
     LET connected == ~(voc < MIN_VOC_ADC)
     IN  /\ adc_noise_floor' = min_adc_noise_floor
         /\ min_isc_adc' = RaiseMinIsc(min_isc_adc, min_adc_noise_floor)
         /\ done_ch1_adc' = DoneCh1(min_adc_noise_floor)
         /\ adc_ch0_val_prev_prev' = ADC_MAX
         /\ adc_ch0_val_prev' = ADC_MAX
         /\ adc_ch1_val_prev_prev' = 0
         /\ adc_ch1_val_prev' = 0
         /\ IF connected
            THEN /\ skip_isc_poll' = FALSE
                 /\ voc_adc' = voc
                 /\ poll_timeout' = TRUE
                 /\ ssr3_is_active' = TRUE
                 /\ pins' = Drive(pins, ArmWrites)
                 /\ writes' = ArmWrites
            ELSE /\ skip_isc_poll' = TRUE
                 /\ voc_adc' = 0
                 /\ writes' = <<>>
                 /\ UNCHANGED <<poll_timeout, ssr3_is_active, pins>>
  /\ ii' = 0
  /\ pc' = "isc_poll"
  /\ out' = <<>>
  /\ last_idx' = {}
  /\ UNCHANGED <<rx, hostio, clk_div, max_iv_points, max_isc_poll, isc_stable_adc,
                 max_discards, aspect_height, aspect_width, relay_active,
                 relay_inactive, arrays, adc_ch0_val, adc_ch1_val,
                 min_adc_noise_floor, max_adc_noise_floor, isc_poll_loops,
                 scalevars, sweepvars, go_sent, go_cfg, cfg_min_isc_adc,
                 discarded, kept_at, corrections, iters,
                 ch1_read, polled, reads, last_sweep>>
  /\ samples' = <<>>

(***************************************************************************)
(* Isc polling: one pass of the for loop.                                  *)
(***************************************************************************)
\* the stability test on (prev_prev, prev, cur), after cur.current > min
IscStable(v_pp, v_p, v, c_pp, c_p, c, stable_adc) ==
  /\ v >= v_p
  /\ v_p >= v_pp
  /\ c <= c_p
  /\ c_p <= c_pp
  /\ Abs(S16(c_p - c)) <= stable_adc
  /\ Abs(S16(c_pp - c_p)) <= stable_adc

\* ii++ of the polling for loop
NextPoll(i) == i + 1

\* a mutation of WindowReplace: the current of the sample is not looked at
WindowReplaceAnyCurrent(above, v, v_p) == ~(v >= v_p)

\* the else branch of if (adc_ch0_val >= adc_ch0_val_prev), inside
\* if (adc_ch1_val > min_isc_adc): the sample replaces prev
WindowReplace(above, v, v_p) == above /\ ~(v >= v_p)

IscPollStep(E) ==
  /\ pc = "isc_poll"
  /\ ii < max_isc_poll
  /\ ~skip_isc_poll
  /\ \E c1 \in E.isc1, v1 \in E.isc0, v2 \in E.isc0 :
       LET release == /\ v1 = adc_ch0_val_prev
                      /\ adc_ch0_val_prev = adc_ch0_val_prev_prev
                      /\ ssr3_is_active
           \* after the release the sketch reads until the voltage has risen
           \* by more than 10 (at most 100 reads); v2 is the last value read
           v == IF release THEN v2 ELSE v1
           c == IF release THEN 0 ELSE c1
           c_p == IF release THEN 0 ELSE adc_ch1_val_prev
           c_pp == IF release THEN 0 ELSE adc_ch1_val_prev_prev
           above == c > min_isc_adc
           stable == above /\ IscStable(adc_ch0_val_prev_prev,
                                        adc_ch0_val_prev, v, c_pp, c_p, c,
                                        isc_stable_adc)
           shift == above /\ v >= adc_ch0_val_prev /\ ~stable
           replace == WindowReplace(above, v, adc_ch0_val_prev)
       IN  /\ ~release => v2 = v1
           /\ writes' = IF release THEN ReleaseWrites ELSE <<>>
           /\ pins' = IF release THEN Drive(pins, ReleaseWrites) ELSE pins
           /\ polled' = LastOf(Append(polled, v1), 3)
           /\ reads' = Logged(E, IF release
                                 THEN << <<"isc", v1, c1>>, <<"rise", v2>> >>
                                 ELSE << <<"isc", v1, c1>> >>)
           /\ ssr3_is_active' = IF release THEN FALSE ELSE ssr3_is_active
           /\ isc_poll_loops' = ii + 1
           /\ adc_ch0_val' = v
           /\ adc_ch1_val' = c
           /\ ch1_read' = c1
           /\ poll_timeout' = IF stable THEN FALSE ELSE poll_timeout
           /\ adc_ch0_val_prev_prev' =
                IF shift THEN adc_ch0_val_prev ELSE adc_ch0_val_prev_prev
           /\ adc_ch1_val_prev_prev' = IF shift THEN c_p ELSE c_pp
           /\ adc_ch0_val_prev' =
                IF shift \/ replace THEN v ELSE adc_ch0_val_prev
           /\ adc_ch1_val_prev' = IF shift \/ replace THEN c ELSE c_p
           /\ ii' = IF stable THEN ii ELSE NextPoll(ii)
           /\ pc' = IF stable THEN "isc_done" ELSE "isc_poll"
  /\ out' = <<>>
  /\ last_idx' = {}
  /\ UNCHANGED <<rx, hostio, tunables, relay_active, relay_inactive, arrays, vocvars,
                 skip_isc_poll, scalevars, sweepvars, go_sent, go_cfg,
                 cfg_min_isc_adc, discarded, kept_at, corrections, iters,
                 samples, last_sweep>>

(***************************************************************************)
(* After the Isc polling: the debug case of a negative max_isc_poll, the   *)
(* Isc value, point 0, the scales and the minimum Manhattan distance.      *)
(***************************************************************************)
\* (unsigned int)((isc * i_scale) + (voc * v_scale)) / max_iv_points; the
\* division is unsigned, and dividing by zero is undefined: div0 is its value
MinManhattan(isc, i_s, voc, v_s, max_pts, div0) ==
  IF U16(max_pts) = 0 THEN div0
  ELSE S16(U16(S16(isc * i_s) + S16(voc * v_s)) \div U16(max_pts))

\* the debug loop (max_isc_poll < 0) ends at the first non-zero CH1 read,
\* at index k, or runs to the end; the reads before that one returned 0
DebugFound(k) == max_isc_poll < 0 /\ k < MAX_ISC_POLL

DebugPolls(E) ==
  IF max_isc_poll < 0
  THEN {k \in 0 .. MAX_ISC_POLL :
          IF k < MAX_ISC_POLL THEN k = 0 \/ 0 \in E.isc1 ELSE 0 \in E.isc1}
  ELSE {0}

DebugCh1(E, k) == IF DebugFound(k) THEN E.isc1 \ {0} ELSE {MinOf(E.isc1)}

DebugCh0(E, k) == IF DebugFound(k) THEN E.isc0 ELSE {MinOf(E.isc0)}

\* the value read from round_up_mask when no bit of the larger product is
\* set at or above bit 4 (the variable is then never assigned)
Uninitialised(E, isc) ==
  IF HighBits(ScaleLg(isc, voc_adc, aspect_width, aspect_height)) # {}
  THEN {MinOf(E.garbage)} ELSE E.garbage

\* the outcome of the division when max_iv_points is 0
DivByZero(E) ==
  IF U16(max_iv_points) = 0 THEN E.div0 ELSE {MinOf(E.div0)}

\* a mutation of TimeoutPrint: the timeout is not reported
TimeoutPrintNever(timed_out) == <<>>

\* if (poll_timeout) Serial.println(F("Polling for stable Isc timed out"))
TimeoutPrint(timed_out) ==
  IF timed_out THEN << <<"Polling for stable Isc timed out">> >> ELSE <<>>

IscDone(E) ==
  /\ \/ pc = "isc_done"
     \/ pc = "isc_poll" /\ (skip_isc_poll \/ ~(ii < max_isc_poll))
  /\ \E k \in DebugPolls(E), div0 \in DivByZero(E) :
     \E dc \in DebugCh1(E, k), dv \in DebugCh0(E, k) :
     \E c_pp \in {IF DebugFound(k) THEN 2048 ELSE adc_ch1_val_prev_prev} :
     \E garbage \in Uninitialised(E, c_pp) :
     \E sc \in {compute_v_and_i_scale(c_pp, voc_adc, aspect_width,
                                      aspect_height, garbage)} :
       LET debug == max_isc_poll < 0
           found == DebugFound(k)
           ch1 == IF debug THEN (IF found THEN dc ELSE 0) ELSE adc_ch1_val
           ch0 == IF found THEN dv ELSE adc_ch0_val
           voc == voc_adc
       IN  /\ ii' = IF debug THEN k ELSE ii
           /\ poll_timeout' = IF debug THEN ~found ELSE poll_timeout
           /\ adc_ch1_val' = ch1
           /\ ch1_read' = IF debug THEN ch1 ELSE ch1_read
           /\ adc_ch0_val' = ch0
           /\ adc_ch1_val_prev_prev' = c_pp
           /\ isc_adc' = c_pp
           /\ adc_ch0_vals' = Store(adc_ch0_vals, 0, ch0)
           /\ adc_ch1_vals' = Store(adc_ch1_vals, 0, ch1)
           /\ v_scale' = sc.v_scale
           /\ i_scale' = sc.i_scale
           /\ min_manhattan_distance' =
                MinManhattan(c_pp, sc.i_scale, voc, sc.v_scale,
                             max_iv_points, div0)
           /\ adc_ch1_val_prev' = ch1
           /\ out' = TimeoutPrint(IF debug THEN ~found ELSE poll_timeout)
           /\ reads' = Logged(E, IF debug THEN << <<"debug", k, ch0, ch1>> >>
                                 ELSE <<>>)
  /\ pc' = "sweep"
  /\ last_idx' = {0}
  /\ kept_at' = [kept_at EXCEPT ![0] = num_meas]
  /\ UNCHANGED <<rx, hostio, tunables, relays, vocvars, adc_ch0_val_prev_prev,
                 adc_ch0_val_prev, skip_isc_poll, ssr3_is_active,
                 isc_poll_loops, sweepvars, go_sent, go_cfg, cfg_min_isc_adc,
                 discarded, corrections, iters, samples, last_sweep>>
  /\ writes' = <<>>
  /\ polled' = <<>>

(***************************************************************************)
(* The sweep loop.                                                         *)
(***************************************************************************)
\* a mutation of SweepCond: one measurement too many
SweepCondInclusive(n) == n <= MAX_IV_MEAS

\* while (num_meas < MAX_IV_MEAS)
SweepCond(n) == n < MAX_IV_MEAS

\* a mutation of Interpolate: weights 9 and 7, whose sum is over 8
InterpolateWide(prev, cur) ==
  CDiv(S16(S16(S16(prev * 9) + S16(cur * 7)) + AVG_WEIGHT), TOTAL_WEIGHT)

\* the weighted average written to the previous point's CH1 slot
Interpolate(prev, cur) ==
  CDiv(S16(S16(S16(prev * CH1_1ST_WEIGHT) + S16(cur * CH1_2ND_WEIGHT))
           + AVG_WEIGHT), TOTAL_WEIGHT)

\* a mutation of RewindLoop: no rewind
RewindLoopNone(ch0s, pt, v) == pt

\* while (pt_num > 1) { if (v < adc_ch0_vals[pt_num-2]) pt_num--; else break; }
RECURSIVE RewindLoop(_, _, _)
RewindLoop(ch0s, pt, v) ==
  IF pt > 1 /\ v < Load(ch0s, pt - 2) THEN RewindLoop(ch0s, pt - 1, v) ELSE pt

\* a mutation of Rewind: an if in place of the while
RewindOnce(ch0s, pt, v) ==
  IF pt > 1 /\ v < Load(ch0s, pt - 2) THEN pt - 1 ELSE pt

\* a mutation of Rewind: the rewind stops above point 0
RewindAboveZero(ch0s, pt, v) ==
  IF RewindLoop(ch0s, pt, v) = 1 /\ pt > 1 THEN 2 ELSE RewindLoop(ch0s, pt, v)

\* pt_num after the voltage-decrease rewind for the new voltage v
Rewind(ch0s, pt, v) == RewindLoop(ch0s, pt, v)

ManhattanDistance(d0, vs, d1, is) == S16(S16(d0 * vs) + S16(d1 * is))

\* a mutation of Keep: the forced keep comes one discard late
KeepLate(distance, min_distance, n_discarded, max_disc) ==
  distance >= min_distance \/ n_discarded > max_disc

\* the discard decision: keep when the distance is big enough or when
\* max_discards consecutive measurements have been discarded
Keep(distance, min_distance, n_discarded, max_disc) ==
  distance >= min_distance \/ n_discarded >= max_disc

\* a mutation of LoopBreak: a timed out Isc polling does not end the loop
LoopBreakTailOnly(c, done_adc, prev_delta, timed_out) ==
  c < done_adc /\ prev_delta < 3

\* the done check and the break after a timed out Isc polling
LoopBreak(c, done_adc, prev_delta, timed_out) ==
  \/ c < done_adc /\ prev_delta < 3
  \/ timed_out

\* if (pt_num >= max_iv_points) break
PointLimit(pt, max_pts) == pt >= max_pts

SweepStep(E) ==
  /\ pc = "sweep"
  /\ SweepCond(num_meas)
  /\ \E c \in E.sw1, v \in E.sw0 :
     \E ch1a \in {IF update_prev_ch1
                  THEN Store(adc_ch1_vals, pt_num - 1,
                             Interpolate(adc_ch1_val_prev, c))
                  ELSE adc_ch1_vals},
        ch0a \in {Store(adc_ch0_vals, pt_num, v)} :
     \E adc_ch0_delta \in {S16(v - Load(ch0a, pt_num - 1))},
        adc_ch1_delta \in {S16(Load(ch1a, pt_num - 1) - c)},
        adc_ch1_prev_delta \in {S16(adc_ch1_val_prev - c)} :
     \E done \in {LoopBreak(c, done_ch1_adc, adc_ch1_prev_delta,
                            poll_timeout)} :
     \E decrease \in {~done /\ v < Load(ch0a, pt_num - 1)},
        pt_rw \in {Rewind(ch0a, pt_num, v)} :
     \E keep \in {/\ ~done
                  /\ ~decrease
                  /\ Keep(ManhattanDistance(adc_ch0_delta, v_scale,
                                            adc_ch1_delta, i_scale),
                          min_manhattan_distance, num_discarded_pts,
                          max_discards)} :
       LET n == num_meas + 1
           discard == ~done /\ ~decrease /\ ~keep
           written == {pt_num} \cup (IF update_prev_ch1 THEN {pt_num - 1}
                                     ELSE {})
       IN  /\ num_meas' = n
           /\ iters' = iters + 1
           /\ adc_ch1_val' = c
           /\ ch1_read' = c
           /\ reads' = Logged(E, << <<"sweep", v, c>> >>)
           /\ adc_ch0_val' = v
           /\ adc_ch0_val_prev' = v
           /\ adc_ch1_val_prev' = c
           /\ adc_ch0_vals' = IF decrease THEN Store(ch0a, pt_rw - 1, v)
                              ELSE ch0a
           /\ adc_ch1_vals' = IF decrease THEN Store(ch1a, pt_rw - 1, c)
                              ELSE ch1a
           /\ pt_num' = IF decrease THEN pt_rw
                        ELSE IF keep THEN pt_num + 1 ELSE pt_num
           /\ update_prev_ch1' = IF decrease \/ keep THEN TRUE
                                 ELSE IF discard THEN FALSE
                                 ELSE update_prev_ch1
           /\ num_discarded_pts' = IF keep THEN 0
                                   ELSE IF discard
                                   THEN S16(num_discarded_pts + 1)
                                   ELSE num_discarded_pts
           /\ pc' = IF done \/ (keep /\ PointLimit(pt_num + 1, max_iv_points))
                    THEN "post_sweep" ELSE "sweep"
           /\ last_idx' = IF decrease THEN written \cup {pt_rw - 1}
                          ELSE written
           /\ kept_at' = IF decrease THEN [kept_at EXCEPT ![pt_rw - 1] = n]
                         ELSE IF keep /\ pt_num \in Slots
                         THEN [kept_at EXCEPT ![pt_num] = n]
                         ELSE kept_at
           /\ discarded' = IF discard THEN discarded \cup {n} ELSE discarded
           /\ corrections' = IF decrease THEN corrections + 1 ELSE corrections
  /\ out' = <<>>
  /\ writes' = <<>>
  /\ UNCHANGED <<rx, hostio, tunables, relays, ii, vocvars, adc_ch0_val_prev_prev,
                 adc_ch1_val_prev_prev, iscvars, scalevars, go_sent, go_cfg,
                 cfg_min_isc_adc, samples, polled, last_sweep>>

\* the while condition fails: MAX_IV_MEAS measurements have been taken
SweepLimit ==
  /\ pc = "sweep"
  /\ ~SweepCond(num_meas)
  /\ pc' = "post_sweep"
  /\ out' = <<>>
  /\ last_idx' = {}
  /\ UNCHANGED <<rx, hostio, tunables, relays, locals, go_sent, go_cfg,
                 cfg_min_isc_adc, discarded, kept_at, corrections, iters,
                 ch1_read, samples, polled, reads, last_sweep>>
  /\ writes' = <<>>

(***************************************************************************)
(* After the sweep loop: the pending CH1 value, and the lines back to      *)
(* bleed.                                                                  *)
(***************************************************************************)
PostSweep ==
  /\ pc = "post_sweep"
  /\ adc_ch1_vals' = IF update_prev_ch1
                     THEN Store(adc_ch1_vals, pt_num - 1, adc_ch1_val)
                     ELSE adc_ch1_vals
  /\ last_idx' = IF update_prev_ch1 THEN {pt_num - 1} ELSE {}
  /\ pins' = Drive(pins, BleedWrites)
  /\ writes' = BleedWrites
  /\ pc' = "report"
  /\ out' = <<>>
  /\ UNCHANGED <<rx, hostio, tunables, relay_active, relay_inactive, ii,
                 adc_ch0_vals, window, vocvars, iscvars, scalevars, sweepvars,
                 go_sent, go_cfg, cfg_min_isc_adc, discarded, kept_at,
                 corrections, iters,
                 ch1_read, samples, polled, reads, last_sweep>>

(***************************************************************************)
(* The report, and the return of loop(), which the Arduino core then       *)
(* calls again.                                                            *)
(***************************************************************************)
\* a mutation of PointLines: the points are numbered from 1
PointLinesFromOne ==
  [k \in 1 .. (IF pt_num > 0 THEN pt_num ELSE 0) |->
     <<k, "CH0", Load(adc_ch0_vals, k - 1),
       "CH1", Load(adc_ch1_vals, k - 1)>>]

PointLines ==
  [k \in 1 .. (IF pt_num > 0 THEN pt_num ELSE 0) |->
     <<k - 1, "CH0", Load(adc_ch0_vals, k - 1),
       "CH1", Load(adc_ch1_vals, k - 1)>>]

\* a mutation of ReportLines: the report without its last line
ReportLinesNoEnd ==
  << <<"CH1 ADC noise floor (min)", min_adc_noise_floor>>,
     <<"CH1 ADC noise floor (max)", max_adc_noise_floor>>,
     <<"Isc CH0:0 CH1", isc_adc>> >>
  \o PointLines

ReportLines ==
  << <<"CH1 ADC noise floor (min)", min_adc_noise_floor>>,
     <<"CH1 ADC noise floor (max)", max_adc_noise_floor>>,
     <<"Isc CH0:0 CH1", isc_adc>> >>
  \o PointLines
  \o << <<"Voc CH0", voc_adc, "CH1", adc_noise_floor>>,
        <<"Isc poll loops", isc_poll_loops>>,
        <<"Number of measurements", num_meas>>,
        <<"Number of recorded points", pt_num>>,
        <<"i_scale", i_scale>>,
        <<"v_scale", v_scale>>,
        <<"min_manhattan_distance", min_manhattan_distance>>,
        <<"Elapsed usecs">>,
        <<"Time (usecs) per i/v reading">>,
        <<"Output complete">> >>

Report ==
  /\ pc = "report"
  /\ out' = ReportLines
  /\ ii' = pt_num
  /\ pc' = "complete"
  /\ last_idx' = {}
  /\ UNCHANGED <<rx, hostio, tunables, relays, arrays, window, vocvars, iscvars,
                 scalevars, sweepvars, go_sent, go_cfg, cfg_min_isc_adc,
                 discarded, kept_at, corrections, iters,
                 ch1_read, samples, polled, reads, last_sweep>>
  /\ writes' = <<>>

LoopReturn ==
  /\ pc = "complete"
  /\ pc' = "idle"
  /\ out' = <<WaitingLine>>
  /\ LoopLocalsReset
  /\ last_sweep' = IF reads = <<>> THEN last_sweep ELSE <<reads, out>>
  /\ UNCHANGED <<rx, hostio, tunables, relays, go_sent, go_cfg, cfg_min_isc_adc>>

(***************************************************************************)
(* Environments: the lines the host sends and the values the ADC returns   *)
(* in each phase of a sweep.  garbage: the values of the uninitialized     *)
(* round_up_mask (only its bits 0..3 can meet a set bit of lg or sm when   *)
(* lg < 16); div0: the results of the division by zero.                    *)
(***************************************************************************)
EnvSweep ==
  [lines   |-> {ReadyLine, GoLine,
                ConfigLine("MAX_IV_POINTS", <<1000>>),
                ConfigLine("MAX_IV_POINTS", <<1>>),
                ConfigLine("MAX_IV_POINTS", <<0>>),
                ConfigLine("MAX_DISCARDS", <<1>>)},
   anytime |-> FALSE,
   voc0    |-> {40},
   voc1    |-> {3},
   isc0    |-> {20, 30},
   isc1    |-> {150},
   sw0     |-> {20, 30, 40},
   sw1     |-> {5, 150},
   garbage |-> 0 .. 15,
   div0    |-> {-1, 0, 32767},
   log     |-> FALSE]

EnvLive ==
  [lines   |-> {ReadyLine, GoLine},
   anytime |-> TRUE,
   voc0    |-> {5, 40},
   voc1    |-> {3},
   isc0    |-> {20, 30},
   isc1    |-> {150},
   sw0     |-> {30, 40},
   sw1     |-> {5, 150},
   garbage |-> 0 .. 15,
   div0    |-> {-1, 0, 32767},
   log     |-> FALSE]

(***************************************************************************)
(* Spec: the sketch with a host that configures the point and discard      *)
(* limits and an ADC that exercises the sweep loop.                        *)
(***************************************************************************)
Next ==
  \/ HostSend(EnvSweep)
  \/ HandshakeMsg
  \/ HandshakeTimeout
  \/ IdleMsg
  \/ VocPollStep(EnvSweep)
  \/ VocDone
  \/ IscPollStep(EnvSweep)
  \/ IscDone(EnvSweep)
  \/ SweepStep(EnvSweep)
  \/ SweepLimit
  \/ PostSweep
  \/ Report
  \/ LoopReturn

Spec == Init /\ [][Next]_vars

(***************************************************************************)
(* LiveSpec: the sketch with a host that may send at any time, and every   *)
(* kind of sweep (not connected, Isc timeout, tail, point limit, voltage   *)
(* decrease, measurement limit).  The sketch is the only thread of control *)
(* of the microcontroller: whenever it has a step to take it takes it.     *)
(***************************************************************************)
Firmware(E) ==
  \/ HandshakeMsg
  \/ HandshakeTimeout
  \/ IdleMsg
  \/ VocPollStep(E)
  \/ VocDone
  \/ IscPollStep(E)
  \/ IscDone(E)
  \/ SweepStep(E)
  \/ SweepLimit
  \/ PostSweep
  \/ Report
  \/ LoopReturn

NextLive ==
  \/ HostSend(EnvLive)
  \/ HandshakeMsg
  \/ HandshakeTimeout
  \/ IdleMsg
  \/ VocPollStep(EnvLive)
  \/ VocDone
  \/ IscPollStep(EnvLive)
  \/ IscDone(EnvLive)
  \/ SweepStep(EnvLive)
  \/ SweepLimit
  \/ PostSweep
  \/ Report
  \/ LoopReturn

LiveSpec == Init /\ [][NextLive]_vars /\ WF_vars(Firmware(EnvLive))

(***************************************************************************)
(* PollSpec: the sketch with a host that configures the Isc polling (the   *)
(* poll limit: none, the default, one more, or the negative debug value;   *)
(* the minimum Isc) and an ADC whose Isc polling samples are stable,       *)
(* unstable, zero, or below the minimum.                                   *)
(***************************************************************************)
EnvPoll ==
  [lines   |-> {ReadyLine, GoLine,
                ConfigLine("MAX_ISC_POLL", <<0>>),
                ConfigLine("MAX_ISC_POLL", <<MAX_ISC_POLL + 1>>),
                ConfigLine("MAX_ISC_POLL", <<-1>>),
                ConfigLine("MIN_ISC_ADC", <<-10>>)},
   anytime |-> FALSE,
   voc0    |-> {40},
   voc1    |-> {3},
   isc0    |-> {20, 30},
   isc1    |-> {0, 90, 150},
   sw0     |-> {30, 90},
   sw1     |-> {5, 150},
   garbage |-> 0 .. 15,
   div0    |-> {-1, 0, 32767},
   log     |-> FALSE]

NextPollSpec ==
  \/ HostSend(EnvPoll)
  \/ HandshakeMsg
  \/ HandshakeTimeout
  \/ IdleMsg
  \/ VocPollStep(EnvPoll)
  \/ VocDone
  \/ IscPollStep(EnvPoll)
  \/ IscDone(EnvPoll)
  \/ SweepStep(EnvPoll)
  \/ SweepLimit
  \/ PostSweep
  \/ Report
  \/ LoopReturn

PollSpec == Init /\ [][NextPollSpec]_vars

(***************************************************************************)
(* VocSpec: the sketch with an ADC whose open-circuit voltage takes more   *)
(* values during the Voc polling than the retained arrays have slots.      *)
(***************************************************************************)
EnvVoc ==
  [lines   |-> {ReadyLine, GoLine},
   anytime |-> FALSE,
   voc0    |-> 40 .. (40 + MAX_IV_POINTS),
   voc1    |-> {3, 12},
   isc0    |-> {20, 30},
   isc1    |-> {150},
   sw0     |-> {30},
   sw1     |-> {5, 150},
   garbage |-> 0 .. 15,
   div0    |-> {-1, 0, 32767},
   log     |-> FALSE]

NextVoc ==
  \/ HostSend(EnvVoc)
  \/ HandshakeMsg
  \/ HandshakeTimeout
  \/ IdleMsg
  \/ VocPollStep(EnvVoc)
  \/ VocDone
  \/ IscPollStep(EnvVoc)
  \/ IscDone(EnvVoc)
  \/ SweepStep(EnvVoc)
  \/ SweepLimit
  \/ PostSweep
  \/ Report
  \/ LoopReturn

VocSpec == Init /\ [][NextVoc]_vars

(***************************************************************************)
(* EdgeSpec: the sketch as it boots (no Config line) with an ADC whose     *)
(* samples reach both ends of its range, 0 and ADC_MAX - 1, in the Isc     *)
(* polling and in the sweep loop.                                          *)
(***************************************************************************)
EnvEdge ==
  [lines   |-> {ReadyLine, GoLine},
   anytime |-> FALSE,
   voc0    |-> {40},
   voc1    |-> {3},
   isc0    |-> {20, 30},
   isc1    |-> {150, ADC_MAX - 1},
   sw0     |-> {30, 40, ADC_MAX - 1},
   sw1     |-> {0, 5, ADC_MAX - 1},
   garbage |-> {0, 15},
   div0    |-> {0},
   log     |-> FALSE]

NextEdge ==
  \/ HostSend(EnvEdge)
  \/ HandshakeMsg
  \/ HandshakeTimeout
  \/ IdleMsg
  \/ VocPollStep(EnvEdge)
  \/ VocDone
  \/ IscPollStep(EnvEdge)
  \/ IscDone(EnvEdge)
  \/ SweepStep(EnvEdge)
  \/ SweepLimit
  \/ PostSweep
  \/ Report
  \/ LoopReturn

EdgeSpec == Init /\ [][NextEdge]_vars

(***************************************************************************)
(* FreshSpec: the sketch as it boots (no Config line) running sweep after  *)
(* sweep, with the ADC reads of each sweep on record, so that a sweep can  *)
(* be compared with the sweep before it.  The CH1 samples of the Isc       *)
(* polling lie a little above the minimum Isc.                             *)
(***************************************************************************)
EnvFresh ==
  [lines   |-> {ReadyLine, GoLine},
   anytime |-> FALSE,
   voc0    |-> {40},
   voc1    |-> {3},
   isc0    |-> {20, 30},
   isc1    |-> {105, 150},
   sw0     |-> {30},
   sw1     |-> {5, 150},
   garbage |-> {0},
   div0    |-> {0},
   log     |-> TRUE]

NextFresh ==
  \/ HostSend(EnvFresh)
  \/ HandshakeMsg
  \/ HandshakeTimeout
  \/ IdleMsg
  \/ VocPollStep(EnvFresh)
  \/ VocDone
  \/ IscPollStep(EnvFresh)
  \/ IscDone(EnvFresh)
  \/ SweepStep(EnvFresh)
  \/ SweepLimit
  \/ PostSweep
  \/ Report
  \/ LoopReturn

FreshSpec == Init /\ [][NextFresh]_vars

(***************************************************************************)
(* HostSpec: the wait loops of the sketch with a host that writes its      *)
(* lines character by character, and a reset that runs setup() again.      *)
(***************************************************************************)
RECURSIVE Join(_)
Join(words) ==
  IF Len(words) = 1 THEN Head(words)
  ELSE Head(words) \o <<SPACE>> \o Join(Tail(words))

\* the host's "Config: <key> <values>"
ConfigText(key, values) == Join(<<config_str \o <<":">>, key>> \o values)

EndLf(text) == Append(text, LINE_FEED)

EndCrLf(text) == text \o <<CARRIAGE_RETURN, LINE_FEED>>

MagicText == Print4(<<EEPROM_VALID_VALUE>>)

\* a line of more than MAX_MSG_LEN - 1 characters that ends in tail
LongText(tail) == [k \in 1 .. MAX_MSG_LEN |-> "x"] \o tail

\* messages that the sketch takes as sent
ValidTexts ==
  { ready_str, go_str,
    ConfigText(max_iv_points_str, <<Itoa(2)>>),
    ConfigText(relay_state_str, <<Itoa(1)>>),
    ConfigText(second_relay_state_str, <<Itoa(1)>>),
    ConfigText(write_eeprom_str, <<Itoa(0), MagicText>>),
    ConfigText(write_eeprom_str, <<Itoa(4), Itoa(10)>>),
    ConfigText(write_eeprom_str, <<Itoa(4), <<"-">> \o Itoa(2)>>),
    ConfigText(write_eeprom_str,
               <<Itoa(EEPROM_RELAY_ACTIVE_HIGH_ADDR), Itoa(1)>>),
    ConfigText(write_eeprom_str,
               <<Itoa(EEPROM_RELAY_ACTIVE_HIGH_ADDR), Itoa(0)>>),
    ConfigText(dump_eeprom_str, <<>>),
    ConfigText(do_ssr_curr_cal_str, <<>>) }

\* messages that process_config_msg rejects
RejectedTexts ==
  { ConfigText(clk_div_str, <<>>),
    ConfigText(<<"B", "O", "G", "U", "S">>, <<Itoa(1)>>),
    ConfigText(max_iv_points_str, <<Itoa(1), Itoa(2), Itoa(3)>>) }

CrTexts ==
  { ready_str, go_str,
    ConfigText(max_iv_points_str, <<Itoa(2)>>),
    ConfigText(write_eeprom_str,
               <<Itoa(EEPROM_RELAY_ACTIVE_HIGH_ADDR), Itoa(1)>>),
    ConfigText(dump_eeprom_str, <<>>) }

\* messages that the host may send twice in a row
TwiceTexts ==
  { ConfigText(max_iv_points_str, <<Itoa(2)>>),
    ConfigText(relay_state_str, <<Itoa(1)>>),
    ConfigText(second_relay_state_str, <<Itoa(1)>>),
    ConfigText(write_eeprom_str,
               <<Itoa(EEPROM_RELAY_ACTIVE_HIGH_ADDR), Itoa(1)>>),
    ConfigText(write_eeprom_str, <<Itoa(4), Itoa(10)>>) }

EnvHost ==
  [twice |-> {EndLf(text) : text \in TwiceTexts},
   texts |-> {EndLf(text) : text \in ValidTexts \cup RejectedTexts}
               \cup {EndCrLf(text) : text \in CrTexts}
               \cup {EndLf(LongText(go_str)),
                      EndLf(LongText(ConfigText(max_iv_points_str,
                                                <<Itoa(2)>>)))}]

\* a reset between two host lines: setup() runs again over the EEPROM as it is
Reboot ==
  /\ serial = <<>>
  /\ pc' = "handshake"
  /\ rx' = <<>>
  /\ out' = Banner
  /\ clk_div' = CLK_DIV
  /\ max_iv_points' = MAX_IV_POINTS
  /\ min_isc_adc' = MIN_ISC_ADC
  /\ max_isc_poll' = MAX_ISC_POLL
  /\ isc_stable_adc' = ISC_STABLE_ADC
  /\ max_discards' = MAX_DISCARDS
  /\ aspect_height' = ASPECT_HEIGHT
  /\ aspect_width' = ASPECT_WIDTH
  /\ \E count \in EepromCounts(eeprom) :
       /\ relay_active' = get_relay_active_val(eeprom, count)
       /\ relay_inactive' = Opposite(get_relay_active_val(eeprom, count))
       /\ pins' = SetupPins(Opposite(get_relay_active_val(eeprom, count)))
  /\ LoopLocalsReset
  /\ go_cfg' = <<CLK_DIV, MAX_IV_POINTS, MIN_ISC_ADC, MAX_ISC_POLL,
                 ISC_STABLE_ADC, MAX_DISCARDS, ASPECT_HEIGHT, ASPECT_WIDTH>>
  /\ cfg_min_isc_adc' = MIN_ISC_ADC
  /\ serial' = <<>>
  /\ overrun' = FALSE
  /\ repeat' = "no"
  /\ abandoned' = <<>>
  /\ UNCHANGED <<eeprom, go_sent, last_sweep>>

NextHost ==
  \/ HostType(EnvHost)
  \/ WaitLoopPass
  \/ Reboot

HostSpec == Init /\ [][NextHost]_vars

(***************************************************************************)
(* MsgSpec: the wait loops of the sketch with a host that pauses within a  *)
(* line: before one character of the line it lets no poll, fewer polls     *)
(* than the message timer counts, exactly as many, or more go by.          *)
(***************************************************************************)
Pauses == {0, MSG_TIMER_TIMEOUT - 1, MSG_TIMER_TIMEOUT, 2 * MSG_TIMER_TIMEOUT}

\* the characters of text, the k-th of them after a pause
Paused(text, k, pause) ==
  [i \in 1 .. Len(text) |-> <<IF i = k THEN pause ELSE 0, text[i]>>]

PausedTexts ==
  { EndLf(ready_str), EndLf(go_str),
    EndLf(ConfigText(max_iv_points_str, <<Itoa(2)>>)),
    EndLf(LongText(go_str)) }

\* the host writes one line when the buffer is empty
HostPaused ==
  /\ serial = <<>>
  /\ pc \in {"handshake", "idle"}
  /\ \E text \in PausedTexts, k \in 1 .. MAX_MSG_LEN + 3, pause \in Pauses :
       /\ k <= Len(text)
       /\ serial' = Paused(text, k, pause)
  /\ UNCHANGED <<pc, rx, out, tunables, relays, locals, go_sent, history,
                 eeprom, overrun, repeat, abandoned>>

\* one pass of the wait loop of setup() or of loop(): get_host_msg over the
\* characters as they arrive, and the dispatch of what it returns
TimedLoopPass ==
  /\ pc \in {"handshake", "idle"}
  /\ serial # <<>>
  /\ \E r \in {GetHostMsgPolls(serial, MsgAtCall)} :
       /\ serial' = r.rest
       /\ abandoned' = IF r.received \/ r.too_long THEN abandoned ELSE r.msg
       /\ IF r.received
          THEN \E line \in Frames(r.msg, pc) :
                 IF pc = "handshake" THEN HandshakeLine(line, r.msg)
                 ELSE IdleLine(line, r.msg)
          ELSE /\ out' = (IF r.too_long
                          THEN << <<"ERROR: Host message too long", r.msg>> >>
                          ELSE <<>>)
                         \o (IF pc = "handshake" THEN << <<"Ready">> >>
                             ELSE <<>>)
               /\ UNCHANGED <<pc, tunables, relays, locals, go_sent, history,
                              eeprom>>
  /\ UNCHANGED <<rx, overrun, repeat>>

NextMsg ==
  \/ HostPaused
  \/ TimedLoopPass

MsgSpec == Init /\ [][NextMsg]_vars

(***************************************************************************)
(* ScaleSpec: compute_v_and_i_scale alone, called on arguments drawn from  *)
(* the ranges of its parameters.                                           *)
(***************************************************************************)
ScaleIsc == (0 .. 18) \cup {31, 32, 33, 63, 64, 100, 127, 128, 255, 256, 511,
                            512, 1000, 1023, 1024, 2047, 2048, 4000, 4094,
                            4095}

ScaleVoc == ScaleIsc \ {0}

AspectRange == 1 .. 8

InitScale ==
  /\ pc = "scale_call"
  /\ eeprom = Erased
  /\ isc_adc \in ScaleIsc
  /\ voc_adc \in ScaleVoc
  /\ aspect_width \in AspectRange
  /\ aspect_height \in AspectRange
  /\ GlobalsInit

ScaleCall ==
  /\ pc = "scale_call"
  /\ \E garbage \in 0 .. 15 :
       LET sc == compute_v_and_i_scale(isc_adc, voc_adc, aspect_width,
                                       aspect_height, garbage)
       IN  /\ HighBits(ScaleLg(isc_adc, voc_adc, aspect_width,
                                aspect_height)) # {} => garbage = 0
           /\ v_scale' = sc.v_scale
           /\ i_scale' = sc.i_scale
  /\ pc' = "scale_ret"
  /\ UNCHANGED <<rx, hostio, out, tunables, relays, ii, arrays, window, vocvars,
                 iscvars, isc_adc, min_manhattan_distance, sweepvars, go_sent,
                 history>>

NextScale == ScaleCall

ScaleSpec == InitScale /\ [][NextScale]_vars

(***************************************************************************)
(* Properties.                                                             *)
(***************************************************************************)
(* MetricSpec: the arithmetic of the discard decision alone, on the last   *)
(* retained point, a new measurement, Isc, Voc and scales drawn from their *)
(* ranges.                                                                 *)
(***************************************************************************)
MetricSamples == {0, 1, 2048, 4095}

\* <<v_scale, i_scale>>
MetricScales == {<<1, 1>>, <<6, 4>>, <<8, 8>>, <<1, 15>>, <<15, 1>>}

InitMetric ==
  /\ pc = "metric_call"
  /\ eeprom = Erased
  /\ aspect_height = ASPECT_HEIGHT
  /\ aspect_width = ASPECT_WIDTH
  /\ isc_adc \in MetricSamples
  /\ voc_adc \in MetricSamples
  /\ GlobalsInit

\* lines 687-688, 722-724 and 766 on point 0 and the measurement <<v, c>>,
\* whose voltage is not below that of point 0 (the rewind has seen to that)
MetricCall ==
  /\ pc = "metric_call"
  /\ \E sc \in MetricScales, v0 \in MetricSamples, c0 \in MetricSamples,
        v \in MetricSamples, c \in MetricSamples :
       /\ v0 <= v
       /\ v_scale' = sc[1]
       /\ i_scale' = sc[2]
       /\ adc_ch0_vals' = Store(adc_ch0_vals, 0, v0)
       /\ adc_ch1_vals' = Store(adc_ch1_vals, 0, c0)
       /\ adc_ch0_val' = v
       /\ adc_ch1_val' = c
       /\ min_manhattan_distance' =
            MinManhattan(isc_adc, sc[2], voc_adc, sc[1], max_iv_points, 0)
  /\ pc' = "metric_ret"
  /\ UNCHANGED <<rx, hostio, out, tunables, relays, ii, vocvars, iscvars,
                 isc_adc, sweepvars, go_sent, history, adc_ch0_val_prev_prev,
                 adc_ch0_val_prev, adc_ch1_val_prev_prev, adc_ch1_val_prev>>

NextMetric == MetricCall

MetricSpec == InitMetric /\ [][NextMetric]_vars

(***************************************************************************)
SweepEnded == pc \in {"post_sweep", "report", "complete"}

ScalesOk == v_scale >= 1 /\ i_scale >= 1 /\ v_scale + i_scale <= 16

\* C1: when the sweep loop has terminated, the retained voltages are in
\* non-decreasing order: adc_ch0_vals[i] <= adc_ch0_vals[i+1] for every i in
\* 0 .. pt_num-2.
C1_VoltageMonotone ==
  SweepEnded =>
    \A i \in 0 .. (pt_num - 2) :
      Load(adc_ch0_vals, i) <= Load(adc_ch0_vals, i + 1)

\* a finished sweep that kept, discarded, force-kept and rewound
C1_Witness ==
  /\ pc = "report"
  /\ corrections >= 1
  /\ discarded # {}
  /\ max_discards = 1
  /\ pt_num >= 3

\* C2: pt_num never exceeds the array length MAX_IV_POINTS, and every index
\* the sweep writes lies inside the arrays, whatever value the host
\* configured for max_iv_points.
C2_PointBound ==
  /\ pt_num <= MAX_IV_POINTS
  /\ last_idx \subseteq Slots

\* the last slot has just been written and the point limit ended the loop
C2_Witness ==
  /\ pc = "post_sweep"
  /\ pt_num = MAX_IV_POINTS
  /\ (MAX_IV_POINTS - 1) \in last_idx

\* C3 (as claimed): the reported number of recorded points is at most the
\* configured max_iv_points.
C3_PointsWithinConfigured == pc = "report" => pt_num <= max_iv_points

\* C4: num_meas never exceeds MAX_IV_MEAS, and the sweep loop makes at most
\* MAX_IV_MEAS - 1 iterations.
C4_MeasBound ==
  /\ num_meas <= MAX_IV_MEAS
  /\ iters <= MAX_IV_MEAS - 1

\* the loop condition ends a sweep of corrections and discards
C4_Witness ==
  /\ pc = "sweep"
  /\ ~SweepCond(num_meas)
  /\ iters = MAX_IV_MEAS - 1
  /\ corrections >= 1
  /\ discarded # {}

GoAccepted == pc = "voc_poll"

OutputComplete ==
  /\ pc = "complete"
  /\ out # <<>>
  /\ out[Len(out)] = <<"Output complete">>

WaitingForGo == pc = "idle" /\ out = <<WaitingLine>>

\* C5: once Go is accepted the sketch eventually prints "Output complete"
\* and then "Waiting for go message or config message", whatever the host
\* sends meanwhile.
C5_SweepCompletes ==
  /\ GoAccepted ~> OutputComplete
  /\ OutputComplete ~> WaitingForGo

\* a sweep that ran to the measurement limit completes with a host line
\* waiting in the buffer
C5_Witness ==
  /\ OutputComplete
  /\ num_meas = MAX_IV_MEAS
  /\ rx # <<>>

\* C6: for Isc in 0..4095, Voc in 1..4095 and aspects in 1..8,
\* compute_v_and_i_scale returns v_scale >= 1, i_scale >= 1 and
\* v_scale + i_scale <= 16.
C6_ScaleInvariant == pc = "scale_ret" => ScalesOk

\* the larger product is below 16 and the scales add up to 16
C6_Witness ==
  /\ pc = "scale_ret"
  /\ ScaleLg(isc_adc, voc_adc, aspect_width, aspect_height) < 16
  /\ v_scale + i_scale = 16

\* C7 (as claimed): in every sweep the scales the sweep loop uses and the
\* report prints satisfy v_scale >= 1, i_scale >= 1, v_scale + i_scale <= 16.
C7_SweepScales == pc \in {"sweep", "post_sweep", "report"} => ScalesOk

\* measurements the discard decision dropped between the measurements that
\* retained points i and i+1
DiscardsBetween(i) ==
  Cardinality({m \in discarded :
                 Load(kept_at, i) < m /\ m < Load(kept_at, i + 1)})

\* C8 (as claimed): in the final list, between any two consecutive retained
\* points at most max_discards measurements were discarded.
C8_DiscardCap ==
  pc = "report" =>
    \A i \in 0 .. (pt_num - 2) : DiscardsBetween(i) <= max_discards

\* C8 (amended): the same, for sweeps without a voltage-decrease correction.
C8_DiscardCapNoCorrection ==
  pc = "report" /\ corrections = 0 =>
    \A i \in 0 .. (pt_num - 2) : DiscardsBetween(i) <= max_discards

\* a sweep without corrections in which a keep was forced
C8_Witness ==
  /\ pc = "report"
  /\ corrections = 0
  /\ pt_num >= 3
  /\ \E i \in 0 .. (pt_num - 2) : DiscardsBetween(i) = max_discards

\* C9 (as claimed): the Isc polling threshold is the configured MIN_ISC_ADC
\* plus the minimum CH1 value of this sweep's Voc polling.
C9_Threshold ==
  pc = "isc_poll" => min_isc_adc = cfg_min_isc_adc + min_adc_noise_floor

\* C10 (as claimed): after "Output complete" every tunable holds the value it
\* held when Go was accepted.
C10_TunablesKept == pc = "complete" => tunables = go_cfg

(***************************************************************************)
(* C11: a Config line for a tunable, WRITE_EEPROM, RELAY_STATE or          *)
(* SECOND_RELAY_STATE that is handled a second time right after the first  *)
(* leaves the tunables, the relay polarity, the digital lines and the      *)
(* EEPROM as the first handling left them.                                 *)
(***************************************************************************)
C11_IdempotentConfig ==
  [][(repeat = "pending" /\ serial' # serial)
       => <<tunables, relays, eeprom>>' = <<tunables, relays, eeprom>>]_vars

C11_Witness ==
  /\ repeat = "done"
  /\ out # <<>>
  /\ out[1] = Received(ConfigText(relay_state_str, <<Itoa(1)>>))
  /\ out[Len(out)] = <<"Config processed">>
  /\ pins["RELAY_PIN"] = relay_active
  /\ relay_active = "HIGH"

(***************************************************************************)
(* What the latest step printed.                                           *)
(***************************************************************************)
Printed(word) == \E i \in 1 .. Len(out) : out[i][1] = word

PrintedNext(word) == \E i \in 1 .. Len(out') : out'[i][1] = word

\* "Config processed", alone or after the unfinished saturation message
Acked(lines) ==
  \E i \in 1 .. Len(lines) :
    \/ lines[i][1] = "Config processed"
    \/ lines[i] = SsrCalSaturated \o <<"Config processed">>

ErrorWords == {"ERROR: Too many fields in config message",
               "ERROR: Unknown config type", "ERROR: Expected args"}

(***************************************************************************)
(* C12: a Config line with an unknown key, with the wrong number of values *)
(* or with too many fields is answered by an "ERROR:" line and "Config not *)
(* processed" and never by "Config processed"; it changes no tunable, no   *)
(* polarity, no line and nothing in the EEPROM, and the sketch stays in    *)
(* the wait loop it is in.                                                 *)
(***************************************************************************)
C12_ConfigErrorPath ==
  [][(serial \in {EndLf(text) : text \in RejectedTexts} /\ serial' # serial)
       => /\ \E word \in ErrorWords : PrintedNext(word)
          /\ PrintedNext("Config not processed")
          /\ ~Acked(out')
          /\ <<tunables, relays, eeprom>>' = <<tunables, relays, eeprom>>
          /\ pc' = pc]_vars

\* a rejected line was answered in idle while an earlier setting is in force
C12_Witness ==
  /\ pc = "idle"
  /\ Printed("ERROR: Expected args")
  /\ Printed("Config not processed")
  /\ max_iv_points = 2
  /\ serial = <<>>

(***************************************************************************)
(* The message that the next pass of a wait loop receives, if any.         *)
(***************************************************************************)
Incoming == get_host_msg(serial)

ConfigIncoming ==
  /\ pc \in {"handshake", "idle"}
  /\ Incoming.received
  /\ StrStr(Incoming.msg, config_str)

\* the wait loop looks for its own word first
ReadyOrGoIncoming ==
  \/ pc = "handshake" /\ StrStr(Incoming.msg, ready_str)
  \/ pc = "idle" /\ StrStr(Incoming.msg, go_str)

\* the step left line in effect
Applied(line) ==
  CASE line[2] = "MAX_IV_POINTS" ->
         max_iv_points' = ClampMaxIvPoints(line[3][1])
    [] line[2] = "WRITE_EEPROM" ->
         EepromGet(eeprom', line[3][1]) = <<line[3][2]>>
    [] line[2] = "RELAY_STATE" ->
         pins'["RELAY_PIN"] = IF line[3][1] # 0 THEN relay_active'
                              ELSE relay_inactive'
    [] line[2] = "SECOND_RELAY_STATE" ->
         pins'["SECOND_RELAY_PIN"] = IF line[3][1] # 0 THEN relay_active'
                                     ELSE relay_inactive'
    [] OTHER -> TRUE

(***************************************************************************)
(* C13 as stated: every line containing "Config" that is received in the   *)
(* handshake or in idle is acknowledged with "Config processed" by the     *)
(* pass of the wait loop that receives it.                                 *)
(***************************************************************************)
C13_EveryConfigAcked ==
  [][(ConfigIncoming /\ serial' # serial) => Acked(out')]_vars

(***************************************************************************)
(* C13, amended: a received line containing "Config", and not the word the *)
(* wait loop looks for first, is handled by the pass that receives it,     *)
(* before anything more is read and without leaving the wait loop: if      *)
(* process_config_msg accepts its fields it is in effect and "Config       *)
(* processed" is printed, and if not, "Config not processed".              *)
(***************************************************************************)
C13_ConfigHandledInPass ==
  [][(ConfigIncoming /\ ~ReadyOrGoIncoming /\ serial' # serial)
       => /\ pc' = pc
          /\ serial' = Incoming.rest
          /\ \E line \in Frames(Incoming.msg, pc) :
               IF ConfigVerdict(line[2], line[3]) = "processed"
               THEN Acked(out') /\ Applied(line)
               ELSE PrintedNext("Config not processed") /\ ~Acked(out')]_vars

\* a setting was acknowledged in idle and the next Go took it into the sweep
C13_Witness ==
  /\ pc = "voc_poll"
  /\ max_iv_points = 2
  /\ go_cfg = tunables
  /\ EepromGet(eeprom, EEPROM_RELAY_ACTIVE_HIGH_ADDR) = <<FloatUnit>>

(***************************************************************************)
(* C14: a line of more than MAX_MSG_LEN - 1 characters is reported with    *)
(* "ERROR: Host message too long" and returned as no message, and no part  *)
(* of it is taken as a Ready, Config or Go message afterwards: while the   *)
(* serial buffer holds what is left of such a line, no pass of a wait loop *)
(* leaves the loop or handles a Config message.                            *)
(***************************************************************************)
C14_OverlongDiscarded ==
  [][/\ (Incoming.too_long /\ serial' # serial)
          => PrintedNext("ERROR: Host message too long") /\ pc' = pc
     /\ (overrun /\ serial' # serial)
          => /\ pc' = pc
             /\ ~PrintedNext("Config processed")
             /\ ~PrintedNext("Config not processed")
             /\ <<tunables, relays, eeprom>>' = <<tunables, relays, eeprom>>]_vars

(***************************************************************************)
(* What a message that says line does when a wait loop handles it.         *)
(***************************************************************************)
Effect(line) ==
  IF IsReady(line) THEN pc' = "idle"
  ELSE IF IsGo(line) THEN pc' = "voc_poll"
  ELSE IF IsConfig(line)
  THEN pc' = pc
       /\ IF ConfigVerdict(line[2], line[3]) = "processed"
          THEN Acked(out') /\ Applied(line)
          ELSE PrintedNext("Config not processed") /\ ~Acked(out')
  ELSE pc' = pc

(***************************************************************************)
(* C15: a valid message that ends in carriage return and line feed has the *)
(* effect and the acknowledgement of the same message ending in the line   *)
(* feed alone.                                                             *)
(***************************************************************************)
C15_TrailingCrTolerated ==
  [][\A text \in CrTexts :
       (serial = EndCrLf(text) /\ serial' # serial)
         => \E line \in Frames(text, pc) : Effect(line)]_vars

(***************************************************************************)
(* C16: the report of every sweep is, in this order, the noise floor (min, *)
(* max), "Isc CH0:0 CH1:<isc>", the pt_num point lines numbered 0 to       *)
(* pt_num - 1, "Voc CH0:<voc> CH1:<noise floor>", the tallies and "Output  *)
(* complete"; and the line printed last before "Waiting for go message or  *)
(* config message" is printed again is "Output complete".                  *)
(***************************************************************************)
ReportOrdered ==
  /\ Len(out) = pt_num + 13
  /\ out[1] = <<"CH1 ADC noise floor (min)", min_adc_noise_floor>>
  /\ out[2] = <<"CH1 ADC noise floor (max)", max_adc_noise_floor>>
  /\ out[3] = <<"Isc CH0:0 CH1", isc_adc>>
  /\ \A k \in 0 .. (pt_num - 1) :
       /\ out[4 + k][1] = k
       /\ out[4 + k][2] = "CH0"
       /\ out[4 + k][4] = "CH1"
  /\ out[4 + pt_num] = <<"Voc CH0", voc_adc, "CH1", adc_noise_floor>>
  /\ out[5 + pt_num][1] = "Isc poll loops"
  /\ out[6 + pt_num] = <<"Number of measurements", num_meas>>
  /\ out[7 + pt_num] = <<"Number of recorded points", pt_num>>
  /\ out[8 + pt_num][1] = "i_scale"
  /\ out[9 + pt_num][1] = "v_scale"
  /\ out[10 + pt_num][1] = "min_manhattan_distance"
  /\ out[11 + pt_num][1] = "Elapsed usecs"
  /\ out[12 + pt_num][1] = "Time (usecs) per i/v reading"
  /\ out[13 + pt_num] = <<"Output complete">>

C16_ReportOrder ==
  /\ [](pc = "complete" => ReportOrdered)
  /\ [][(pc \notin {"handshake", "idle"} /\ pc' = "idle")
          => /\ out' = <<WaitingLine>>
             /\ out[Len(out)] = <<"Output complete">>]_vars

\* a report with three points
C16_Witness ==
  /\ pc = "complete"
  /\ pt_num = 3
  /\ out[4 + 2][1] = 2
  /\ out[Len(out)] = <<"Output complete">>

(***************************************************************************)
(* The pass that handles "Config: DUMP_EEPROM", and the dump line for the  *)
(* slot at addr with the value text.                                       *)
(***************************************************************************)
DumpStep ==
  /\ serial = EndLf(ConfigText(dump_eeprom_str, <<>>))
  /\ serial' # serial

Dumped(lines, addr, text) ==
  \E i \in 1 .. Len(lines) :
    /\ lines[i][1] = "EEPROM addr"
    /\ lines[i][2] = addr
    /\ lines[i][4] = text

\* the pass that handles a WRITE_EEPROM message leaves its value at its addr
WriteStored ==
  (ConfigIncoming /\ ~ReadyOrGoIncoming /\ serial' # serial)
    => \A line \in Frames(Incoming.msg, pc) :
         (line[2] = "WRITE_EEPROM"
            /\ ConfigVerdict(line[2], line[3]) = "processed"
            /\ line[3][1] \in EepromSlots)
           => EepromGet(eeprom', line[3][1]) = <<line[3][2]>>

JustBooted == pc = "handshake" /\ out = Banner

CountCovers ==
  /\ eeprom[SizeofFloat] # <<>>
  /\ (FloatToInt(eeprom[SizeofFloat][1]) + 1) * SizeofFloat
       >= EEPROM_RELAY_ACTIVE_HIGH_ADDR

BootActive ==
  IF eeprom[0] # <<EEPROM_VALID_VALUE>> \/ ~CountCovers THEN "LOW"
  ELSE IF eeprom[EEPROM_RELAY_ACTIVE_HIGH_ADDR] = <<0>> THEN "LOW"
  ELSE "HIGH"

C18_BootPolarity ==
  JustBooted
    => /\ relay_active = BootActive
       /\ relay_inactive = Opposite(BootActive)
       /\ pins = SetupPins(Opposite(BootActive))
       /\ tunables = <<CLK_DIV, MAX_IV_POINTS, MIN_ISC_ADC, MAX_ISC_POLL,
                       ISC_STABLE_ADC, MAX_DISCARDS, ASPECT_HEIGHT,
                       ASPECT_WIDTH>>

(***************************************************************************)
(* C19: for ADC samples in 0 .. 4095 and scales of at least 1 whose sum is *)
(* at most 16, the Manhattan distance of a measurement from the last       *)
(* retained point and the sum that min_manhattan_distance is made of lie   *)
(* within -32768 .. 32767, and the 16-bit discard decision is the decision *)
(* made with unbounded integers.                                           *)
(***************************************************************************)
InInt16(n) == -32768 <= n /\ n <= 32767

C19_Metric16Bit ==
  pc = "metric_ret"
    => LET dv == adc_ch0_val - adc_ch0_vals[0]
           di == adc_ch1_vals[0] - adc_ch1_val
           exact == dv * v_scale + di * i_scale
           sum == isc_adc * i_scale + voc_adc * v_scale
       IN  /\ InInt16(exact)
           /\ InInt16(sum)
           /\ Keep(ManhattanDistance(dv, v_scale, di, i_scale),
                   min_manhattan_distance, 0, 1)
                <=> Keep(exact, sum \div max_iv_points, 0, 1)

(***************************************************************************)
(* C20: a sweep whose Voc is below MIN_VOC_ADC has Voc forced to 0 and the *)
(* Isc polling skipped, leaves the sweep loop on its first iteration with  *)
(* poll_timeout set, and reports "Isc CH0:0 CH1:0", no numbered point line *)
(* and "Voc CH0:0 CH1:<noise floor>".                                      *)
(***************************************************************************)
C20_OpenCircuit ==
  (pc = "complete" /\ skip_isc_poll)
    => /\ voc_adc = 0
       /\ isc_poll_loops = 0
       /\ poll_timeout
       /\ iters <= 1
       /\ out[3] = <<"Isc CH0:0 CH1", 0>>
       /\ pt_num = 0
       /\ out[4] = <<"Voc CH0", 0, "CH1", adc_noise_floor>>

(***************************************************************************)
(* C21: when Voc >= MIN_VOC_ADC and the Isc polling loop (max_isc_poll >= 0 *)
(* iterations at most) runs out without a stable window, poll_timeout is   *)
(* true, "Polling for stable Isc timed out" is printed before the report,  *)
(* the sweep loop makes exactly one iteration, and the report says         *)
(* "Number of recorded points: 1" and "Number of measurements: 2".         *)
(***************************************************************************)
\* the polling loop has run out (a stable window leaves the loop early, with
\* ii < max_isc_poll); Report reuses ii, so this reads the sweep up to there
PollExhausted ==
  /\ pc \in {"isc_poll", "sweep", "post_sweep", "report"}
  /\ voc_adc >= MIN_VOC_ADC
  /\ ~skip_isc_poll
  /\ max_isc_poll >= 0
  /\ ~(ii < max_isc_poll)

C21_IscTimeout ==
  /\ [](PollExhausted
          => /\ poll_timeout
             /\ pc = "isc_poll" => ~Printed("Output complete")
             /\ pc = "sweep" => (/\ iters = 0
                                 /\ out = << <<"Polling for stable Isc timed out">> >>)
             /\ pc \in {"post_sweep", "report"} => iters = 1)
  /\ [][(PollExhausted /\ pc = "report" /\ pc' = "complete")
          => /\ iters' = 1
             /\ out'[6 + pt_num] = <<"Number of measurements", 2>>
             /\ out'[7 + pt_num] = <<"Number of recorded points", 1>>]_vars

\* the report of a sweep whose three polls found no stable window, and of
\* one polled zero times
C21_Witness ==
  /\ pc = "report"
  /\ PollExhausted
  /\ isc_poll_loops = max_isc_poll
  /\ max_isc_poll \in {0, MAX_ISC_POLL}

(***************************************************************************)
(* C22: compute_v_and_i_scale with Isc = 4000, Voc = 4000 and both aspects *)
(* 1 yields v_scale = i_scale = 8; with Isc = 10, Voc = 4000 and aspects 1 *)
(* and 8 it yields i_scale >= 1, v_scale >= 1, v_scale + i_scale <= 16 and *)
(* i_scale < v_scale.                                                      *)
(***************************************************************************)
ScaleSquare ==
  /\ pc = "scale_ret"
  /\ isc_adc = 4000
  /\ voc_adc = 4000
  /\ aspect_height = 1
  /\ aspect_width = 1

\* the aspects 1 and 8, in either order
ScaleFlat ==
  /\ pc = "scale_ret"
  /\ isc_adc = 10
  /\ voc_adc = 4000
  /\ <<aspect_height, aspect_width>> \in {<<1, 8>>, <<8, 1>>}

C22_ScaleExtremes ==
  /\ ScaleSquare => (v_scale = 8 /\ i_scale = 8)
  /\ ScaleFlat => (ScalesOk /\ i_scale < v_scale)

\* C22 as the sketch computes it: in the second case the scale of the
\* current axis is the larger one, i_scale = 15 and v_scale = 1, so
\* i_scale > v_scale.
C22_ScaleExtremesCurrentLarger ==
  /\ ScaleSquare => (v_scale = 8 /\ i_scale = 8)
  /\ ScaleFlat => (ScalesOk /\ i_scale > v_scale /\ i_scale = 15
                   /\ v_scale = 1)

\* the function has returned for one of the two argument tuples
C22_Witness ==
  \/ ScaleSquare /\ v_scale = 8
  \/ ScaleFlat /\ aspect_width = 8 /\ i_scale = 15

(***************************************************************************)
(* C23: when the sweep loop ends through the tail check (current below     *)
(* done_ch1_adc = max(2 * noise floor, 20) and a drop of less than 3 since *)
(* the measurement before), the last retained point adc_ch1_vals[pt_num-1] *)
(* that is reported has a current below done_ch1_adc, whether the          *)
(* measurement before the tail measurement was kept, discarded or a        *)
(* voltage-decrease correction.                                            *)
(***************************************************************************)
\* the loop was left by the break of the done check: the latest measurement
\* (number num_meas) was neither kept, nor discarded, nor used by a
\* correction, and the Isc polling had not timed out
TailExit ==
  /\ pc \in {"report", "complete"}
  /\ iters >= 1
  /\ ~poll_timeout
  /\ num_meas \notin discarded
  /\ pt_num - 1 \in Slots
  /\ kept_at[pt_num - 1] # num_meas

C23_TailPointBelowDone ==
  TailExit => Load(adc_ch1_vals, pt_num - 1) < done_ch1_adc

(***************************************************************************)
(* C24: in every state in which the sketch waits for a host line (in the   *)
(* handshake loop or in the idle loop), after any Config messages and      *)
(* sweeps, SSR2 is active exactly when the primary relay line is inactive, *)
(* and SSR6 is active exactly when the second relay line is inactive.      *)
(***************************************************************************)
Ssr2Complement ==
  pins["SSR2_PIN"] = SSR2_ACTIVE <=> pins["RELAY_PIN"] = relay_inactive

Ssr6Complement ==
  pins["SSR6_PIN"] = SSR6_ACTIVE <=> pins["SECOND_RELAY_PIN"] = relay_inactive

C24_ComplementaryLines ==
  pc \in {"handshake", "idle"} => (Ssr2Complement /\ Ssr6Complement)

(***************************************************************************)
(* C25: the voltage-decrease correction never overwrites retained point 0: *)
(* the voltage and current stored in slot 0 at the end of the Isc polling  *)
(* are not written by the rewind-and-replace step, even when the new       *)
(* voltage is below every retained voltage.                                *)
(***************************************************************************)
\* this step of the sweep loop is a voltage-decrease correction
Correction == pc = "sweep" /\ corrections' = corrections + 1

C25_PointZeroKept ==
  [][Correction => /\ adc_ch0_vals'[0] = adc_ch0_vals[0]
                   /\ kept_at'[0] = kept_at[0]]_vars

\* C25 as the sketch behaves: the correction never moves pt_num below 1 and
\* writes no index below 0; it replaces retained point 0 with the new
\* measurement exactly when the new voltage is below every retained voltage
\* (with pt_num = 1: below the voltage of point 0).
C25_PointZeroReplacedWhenLowest ==
  [][Correction
       => /\ pt_num' >= 1
          /\ last_idx' \subseteq Slots
          /\ (kept_at'[0] = num_meas')
               <=> \A j \in 0 .. (pt_num - 1) :
                     adc_ch0_val' < Load(adc_ch0_vals, j)
          /\ (kept_at'[0] = num_meas')
               => /\ pt_num' = 1
                  /\ adc_ch0_vals'[0] = adc_ch0_val'
                  /\ adc_ch1_vals'[0] = adc_ch1_val']_vars

\* point 0 has just been replaced by a correction that rewound over point 1
C25_Witness ==
  /\ pc = "sweep"
  /\ corrections >= 1
  /\ kept_at[0] = num_meas
  /\ pt_num = 1
  /\ kept_at[1] > 1

(***************************************************************************)
(* C26: after a voltage-decrease correction with the new sample (v, i):    *)
(* pt_num >= 1, slot pt_num-1 holds (v, i), every retained slot below      *)
(* pt_num-1 has a voltage <= v, update_prev_ch1 is true, and               *)
(* num_discarded_pts is unchanged.  An iteration that does not leave the   *)
(* loop and reads a voltage below that of slot pt_num-1 is a correction.   *)
(***************************************************************************)
C26_CorrectionResult ==
  /\ [][Correction
          => /\ pt_num' >= 1
             /\ Load(adc_ch0_vals', pt_num' - 1) = adc_ch0_val'
             /\ Load(adc_ch1_vals', pt_num' - 1) = adc_ch1_val'
             /\ \A j \in 0 .. (pt_num' - 2) :
                  Load(adc_ch0_vals', j) <= adc_ch0_val'
             /\ update_prev_ch1'
             /\ num_discarded_pts' = num_discarded_pts]_vars
  /\ [][(/\ pc = "sweep"
         /\ pc' = "sweep"
         /\ num_meas' = num_meas + 1
         /\ adc_ch0_val' < Load(adc_ch0_vals, pt_num - 1))
          => Correction]_vars

\* a correction after a discard has rewound over a kept point and stopped
\* above point 0
C26_Witness ==
  /\ pc = "sweep"
  /\ corrections >= 1
  /\ pt_num >= 2
  /\ kept_at[pt_num - 1] = num_meas
  /\ kept_at[pt_num] > 1
  /\ num_discarded_pts >= 1

(***************************************************************************)
(* C27: whenever the Isc polling ends without a timeout (max_isc_poll >=   *)
(* 0), the window (prev_prev, prev, cur) satisfies the five conditions of  *)
(* the stability test (cur.current above the effective minimum Isc, the    *)
(* voltages non-decreasing, the currents non-increasing, both adjacent     *)
(* current differences <= isc_stable_adc), Isc is prev_prev.current, and   *)
(* retained point 0 is the pair last read from CH0 and CH1.                *)
(***************************************************************************)
\* the polling loop has just been left by the break of the stability test
PollStable == pc = "isc_done" /\ max_isc_poll >= 0

\* the sweep loop is about to start after a polling that found a stable Isc
StableSweepStart ==
  /\ pc = "sweep"
  /\ iters = 0
  /\ max_isc_poll >= 0
  /\ ~skip_isc_poll
  /\ ~poll_timeout

C27_IscStabilised ==
  /\ PollStable
       => /\ ~poll_timeout
          /\ adc_ch1_val > cfg_min_isc_adc + adc_noise_floor
          /\ adc_ch0_val >= adc_ch0_val_prev
          /\ adc_ch0_val_prev >= adc_ch0_val_prev_prev
          /\ adc_ch1_val <= adc_ch1_val_prev
          /\ adc_ch1_val_prev <= adc_ch1_val_prev_prev
          /\ adc_ch1_val_prev - adc_ch1_val <= isc_stable_adc
          /\ adc_ch1_val_prev_prev - adc_ch1_val_prev <= isc_stable_adc
  /\ StableSweepStart
       => /\ isc_adc = adc_ch1_val_prev_prev
          /\ Load(adc_ch0_vals, 0) = adc_ch0_val
          /\ Load(adc_ch1_vals, 0) = ch1_read

(***************************************************************************)
(* C28: during the Isc polling, every sample whose voltage is strictly     *)
(* below the voltage of the previous window sample replaces prev, and      *)
(* prev_prev keeps its value; every other sample that does not end the     *)
(* polling shifts the window (prev_prev := prev, prev := cur); this holds  *)
(* for every sample read, whatever its current.                            *)
(***************************************************************************)
\* one pass of the polling for loop
PollIter == pc = "isc_poll" /\ pc' \in {"isc_poll", "isc_done"} /\ rx' = rx

Prev == <<adc_ch0_val_prev, adc_ch1_val_prev>>

PrevPrev == <<adc_ch0_val_prev_prev, adc_ch1_val_prev_prev>>

Cur == <<adc_ch0_val, adc_ch1_val>>

C28_WindowUpdate ==
  [][PollIter
       => IF adc_ch0_val' < adc_ch0_val_prev
          THEN Prev' = Cur' /\ PrevPrev' = PrevPrev
          ELSE pc' = "isc_poll" => (PrevPrev' = Prev /\ Prev' = Cur')]_vars

\* C28 as the sketch behaves: the window is updated only by a sample whose
\* current is above min_isc_adc (such a sample replaces prev when its
\* voltage is below that of prev, and otherwise shifts the window unless it
\* ends the polling); a sample whose current is not above min_isc_adc
\* leaves prev and prev_prev as they are.  In the pass that releases SSR3
\* the currents of prev_prev, prev and the sample are set to 0 first.
Released == ssr3_is_active /\ ~ssr3_is_active'

PrevAtTest == IF Released THEN <<adc_ch0_val_prev, 0>> ELSE Prev

PrevPrevAtTest == IF Released THEN <<adc_ch0_val_prev_prev, 0>> ELSE PrevPrev

C28_WindowUpdateAboveMinimum ==
  [][PollIter
       => /\ Released => adc_ch1_val' = 0
          /\ ~Released => adc_ch1_val' = ch1_read'
          /\ IF ~(adc_ch1_val' > min_isc_adc)
             THEN Prev' = PrevAtTest /\ PrevPrev' = PrevPrevAtTest
             ELSE IF adc_ch0_val' < adc_ch0_val_prev
             THEN Prev' = Cur' /\ PrevPrev' = PrevPrevAtTest
             ELSE pc' = "isc_poll"
                    => (PrevPrev' = PrevAtTest /\ Prev' = Cur')]_vars

\* a sample with a lower voltage and a current below the minimum has been
\* read and has left the window, which holds two earlier samples, unchanged
C28_Witness ==
  /\ pc = "isc_poll"
  /\ ch1_read = 90
  /\ adc_ch1_val = 90
  /\ min_isc_adc > 90
  /\ adc_ch0_val < adc_ch0_val_prev
  /\ adc_ch1_val_prev = 150
  /\ adc_ch1_val_prev_prev = 150

(***************************************************************************)
(* C29: with a negative MAX_ISC_POLL configured and a PV source connected  *)
(* (Voc >= MIN_VOC_ADC), every sweep is a single-point sweep: the sweep    *)
(* loop is left after its first iteration and the report says "Number of   *)
(* recorded points: 1", whether or not a non-zero CH1 reading was found.   *)
(***************************************************************************)
DebugSweep == max_isc_poll < 0 /\ ~skip_isc_poll /\ voc_adc >= MIN_VOC_ADC

SinglePoint ==
  /\ iters = 1
  /\ out[7 + pt_num] = <<"Number of recorded points", 1>>

C29_DebugSinglePoint == (pc = "complete" /\ DebugSweep) => SinglePoint

\* C29 as the sketch behaves: the debug polling reads CH1 up to MAX_ISC_POLL
\* times.  When every read returns 0, poll_timeout stays true, the timeout
\* is reported and the sweep is a single-point sweep.  When a read returns a
\* non-zero value, poll_timeout is cleared, Isc is taken to be 2048, point 0
\* is the pair just read, and the sweep loop runs as in any other sweep.
C29_DebugSinglePointWhenNothingFound ==
  /\ (pc = "sweep" /\ iters = 0 /\ DebugSweep)
       => /\ isc_poll_loops = 0
          /\ poll_timeout <=> ch1_read = 0
          /\ poll_timeout <=> Printed("Polling for stable Isc timed out")
          /\ ~poll_timeout
               => /\ isc_adc = 2048
                  /\ Load(adc_ch1_vals, 0) = ch1_read
                  /\ Load(adc_ch0_vals, 0) = adc_ch0_val
  /\ (pc = "complete" /\ DebugSweep /\ poll_timeout) => SinglePoint
  /\ (pc = "complete" /\ DebugSweep /\ ~poll_timeout /\ pt_num < max_iv_points
        /\ num_meas < MAX_IV_MEAS)
       => adc_ch1_val < done_ch1_adc

\* the reports of two debug sweeps: nothing found, and a reading found
\* followed by a sweep that kept a second point
C29_Witness ==
  /\ pc = "complete"
  /\ DebugSweep
  /\ \/ poll_timeout /\ ch1_read > 0 /\ iters = 1
     \/ ~poll_timeout /\ pt_num = 2 /\ iters >= 2

(***************************************************************************)
(* C30: the Voc counting table stays within the retained arrays: every     *)
(* index read or written while a voltage sample is counted, and every      *)
(* index read while the table is scanned for the mode, is in               *)
(* [0, MAX_IV_POINTS-1], also when the samples take more distinct values   *)
(* than the arrays have slots.                                             *)
(***************************************************************************)
VocCounted == pc = "voc_poll" /\ ii > 0

ModeScanDue == pc = "voc_poll" /\ ~(ii < VOC_POLLING_LOOPS)

C30_VocTableInBounds ==
  /\ VocCounted => last_idx \subseteq Slots
  /\ ModeScanDue => (0 .. ScanStop(adc_ch1_vals)) \subseteq Slots

(***************************************************************************)
(* C31: when the Voc polling has read at most MAX_IV_POINTS distinct       *)
(* voltages, the Voc estimate (before the not-connected check forces it to *)
(* 0) is the voltage read most often, the first-seen one on ties; the      *)
(* noise floor is the smallest CH1 sample of the polling, and done_ch1 is  *)
(* the larger of twice the noise floor and 20.                             *)
(***************************************************************************)
SampledVoltages == {samples[i][1] : i \in DOMAIN samples}

TimesRead(v) == Cardinality({i \in DOMAIN samples : samples[i][1] = v})

FirstRead(v) == MinOf({i \in DOMAIN samples : samples[i][1] = v})

MostRead ==
  {v \in SampledVoltages : \A w \in SampledVoltages : TimesRead(w) <= TimesRead(v)}

SampledMode ==
  The({v \in MostRead : \A w \in MostRead : FirstRead(v) <= FirstRead(w)})

SampledFloor == MinOf({samples[i][2] : i \in DOMAIN samples})

VocPollingEnds == pc = "voc_poll" /\ pc' = "isc_poll"

C31_VocIsMode ==
  [][(VocPollingEnds /\ Cardinality(SampledVoltages) <= MAX_IV_POINTS)
       => /\ IF SampledMode < MIN_VOC_ADC
             THEN skip_isc_poll' /\ voc_adc' = 0
             ELSE ~skip_isc_poll' /\ voc_adc' = SampledMode
          /\ adc_noise_floor' = SampledFloor
          /\ done_ch1_adc' = MaxOf({2 * SampledFloor, 20})]_vars

(***************************************************************************)
(* C32: in a connected sweep SSR3 is driven active before the primary      *)
(* relay is driven active, the primary relay line stays at its active      *)
(* level from then until the sweep loop has been left, and the primary     *)
(* relay is driven inactive and SSR2 and SSR4 are driven active before the *)
(* first line of the report is printed.                                    *)
(***************************************************************************)
\* the positions in the writes of the step just made that drive line to level
DrivenAt(line, level) ==
  {i \in DOMAIN writes' : writes'[i] = <<line, level>>}

Armed == VocPollingEnds /\ ~skip_isc_poll'

ConnectedSweep ==
  pc \in {"isc_poll", "isc_done", "sweep", "post_sweep"} /\ ~skip_isc_poll

Bled ==
  /\ pins["RELAY_PIN"] = relay_inactive
  /\ pins["SSR2_PIN"] = SSR2_ACTIVE
  /\ pins["SSR4_PIN"] = SSR4_ACTIVE

C32_RelayOrdering ==
  /\ [][Armed
          => /\ DrivenAt("SSR3_PIN", SSR3_ACTIVE) # {}
             /\ DrivenAt("RELAY_PIN", relay_active) # {}
             /\ \A j \in DrivenAt("RELAY_PIN", relay_active) :
                  \E i \in DrivenAt("SSR3_PIN", SSR3_ACTIVE) : i < j]_vars
  /\ [](ConnectedSweep => pins["RELAY_PIN"] = relay_active)
  /\ [][(pc = "post_sweep" /\ pc' = "report")
          => /\ DrivenAt("RELAY_PIN", relay_inactive) # {}
             /\ DrivenAt("SSR2_PIN", SSR2_ACTIVE) # {}
             /\ DrivenAt("SSR4_PIN", SSR4_ACTIVE) # {}
             /\ out' = <<>>]_vars
  /\ [][(pc = "report" /\ pc' = "complete")
          => Bled /\ out = <<>> /\ out'[1][1] = "CH1 ADC noise floor (min)"]_vars

\* a connected sweep with a stable Isc that took several measurements is
\* about to be reported
C32_Witness ==
  /\ pc = "report"
  /\ ~skip_isc_poll
  /\ ~poll_timeout
  /\ iters >= 2
  /\ Bled

(***************************************************************************)
(* C33: a sweep restores the idle levels of the control lines: the lines   *)
(* that are at their post-boot levels (primary relay inactive, SSR2        *)
(* active, SSR3 inactive, SSR4 active) when Go is accepted are at those    *)
(* levels again when "Output complete" has been printed, on every path of  *)
(* the sweep.  No Config line of Spec drives a line, so the lines are as   *)
(* setup() left them when the first Go is accepted.                        *)
(***************************************************************************)
PostBootLines ==
  /\ pins["RELAY_PIN"] = relay_inactive
  /\ pins["SSR2_PIN"] = SSR2_ACTIVE
  /\ pins["SSR3_PIN"] = SSR3_INACTIVE
  /\ pins["SSR4_PIN"] = SSR4_ACTIVE

C33_IdleLinesRestored ==
  /\ (pc \in {"handshake", "idle"} /\ go_sent = 0) => PostBootLines
  /\ (pc = "complete" /\ go_sent = 1) => PostBootLines

(***************************************************************************)
(* C34: within one sweep SSR3 and SSR4 are driven inactive during the Isc  *)
(* polling at most once, and only in a pass of the polling loop whose      *)
(* voltage read equals the voltages of the two reads before it.            *)
(***************************************************************************)
ReleasePass ==
  /\ PollIter
  /\ \/ DrivenAt("SSR3_PIN", SSR3_INACTIVE) # {}
     \/ DrivenAt("SSR4_PIN", SSR4_INACTIVE) # {}

C34_ReleaseOnThreeEqualReads ==
  /\ [][ReleasePass
          => /\ ssr3_is_active /\ ~ssr3_is_active'
             /\ Len(polled') = 3
             /\ polled'[1] = polled'[3]
             /\ polled'[2] = polled'[3]]_vars
  /\ [][(~ssr3_is_active /\ ssr3_is_active') => pc' \in {"idle", "handshake"}]_vars

(***************************************************************************)
(* C35: in a sweep whose Voc is below MIN_VOC_ADC (nothing connected) no   *)
(* step from the acceptance of Go to "Output complete" drives the primary  *)
(* relay line to its active level, and the levels of the SSR2 and SSR3     *)
(* lines never change: the Voc polling drives no line and, once the sweep  *)
(* is known to skip the Isc polling, the only writes are those of the      *)
(* return to bleed, which leave SSR2 and SSR3 as they were.                *)
(***************************************************************************)
NotConnectedStep ==
  \/ pc = "voc_poll" /\ (pc' = "voc_poll" \/ skip_isc_poll')
  \/ pc \in {"isc_poll", "isc_done", "sweep", "post_sweep", "report"}
       /\ skip_isc_poll

C35_NotConnectedNoActuation ==
  [][NotConnectedStep
       => /\ DrivenAt("RELAY_PIN", relay_active) = {}
          /\ pins'["RELAY_PIN"] = pins["RELAY_PIN"]
               \/ pins'["RELAY_PIN"] = relay_inactive
          /\ pins'["SSR2_PIN"] = pins["SSR2_PIN"]
          /\ pins'["SSR3_PIN"] = pins["SSR3_PIN"]]_vars

\* a not-connected sweep has been reported, after a sweep that left SSR3 on
C35_Witness ==
  /\ pc = "complete"
  /\ skip_isc_poll
  /\ voc_adc = 0
  /\ pins["SSR3_PIN"] = SSR3_ACTIVE
  /\ pins["RELAY_PIN"] = relay_inactive

(***************************************************************************)
(* C36: the sketch leaves the handshake only by taking a Ready line from   *)
(* the host, and leaves its waiting for a sweep (Voc polling, relay        *)
(* writes, report) only from Idle by taking a Go line; while it waits no   *)
(* Voc sample is read and no sweep write is made.  A Go line taken during  *)
(* the handshake changes nothing but the printout, which ends with "Ready" *)
(* again; and whenever the sketch is about to read in the handshake, the   *)
(* last line it printed is "Ready".                                        *)
(***************************************************************************)
Waiting == pc \in {"handshake", "idle"}

Takes(line) == rx # <<>> /\ Head(rx) = line /\ rx' = Tail(rx)

C36_HandshakeGating ==
  /\ [][(pc = "handshake" /\ pc' # "handshake")
          => pc' = "idle" /\ Takes(ReadyLine)]_vars
  /\ [][(Waiting /\ ~Waiting')
          => pc = "idle" /\ pc' = "voc_poll" /\ Takes(GoLine)]_vars
  /\ [][(Waiting /\ Waiting')
          => samples' = <<>> /\ writes' = <<>> /\ pins' = pins]_vars
  /\ [][(pc = "handshake" /\ Takes(GoLine))
          => /\ pc' = "handshake"
             /\ out' = << Received(GoLine), <<"Ready">> >>
             /\ UNCHANGED <<tunables, relays, locals, eeprom>>]_vars
  /\ [](pc = "handshake" => out # <<>> /\ out[Len(out)][1] = "Ready")

\* a Go line sent during the handshake has been taken: the sketch is still
\* in the handshake, has printed "Ready" again and holds no line
C36_Witness ==
  /\ pc = "handshake"
  /\ go_sent = 1
  /\ rx = <<>>
  /\ out = << Received(GoLine), <<"Ready">> >>

(***************************************************************************)
(* C37: a call of get_host_msg returns without a message and without an    *)
(* error exactly when, before a line feed is read and before the line is   *)
(* too long, MSG_TIMER_TIMEOUT polls in a row find no character, counted   *)
(* from the call or from the character read last; it returns at the last   *)
(* of these polls.  The characters it has stored by then are dropped: the  *)
(* message the next calls return, echo and interpret is made of the        *)
(* characters read in the call that returns it, and of no others.          *)
(***************************************************************************)
\* a call of get_host_msg is made from a wait loop
HostMsgCall == Waiting /\ serial # <<>> /\ serial' # serial

CharsOf(arriving, n) == [i \in 1 .. n |-> arriving[i][2]]

\* the first k - 1 characters arrive in time and are stored, and then
\* MSG_TIMER_TIMEOUT polls find nothing
QuietAt(arriving, k) ==
  /\ k - 1 <= MAX_MSG_LEN - 1
  /\ \A i \in 1 .. (k - 1) :
       arriving[i][1] < MSG_TIMER_TIMEOUT /\ arriving[i][2] # LINE_FEED
  /\ k = Len(arriving) + 1 \/ arriving[k][1] >= MSG_TIMER_TIMEOUT

\* the call returns false and has printed no error
TimedOut ==
  /\ HostMsgCall
  /\ out' = IF pc = "handshake" THEN << <<"Ready">> >> ELSE <<>>

C37_MessageTimeout ==
  /\ [][HostMsgCall
          => (TimedOut <=> \E k \in 1 .. (Len(serial) + 1) : QuietAt(serial, k))]_vars
  /\ [][TimedOut
          => \E k \in 1 .. (Len(serial) + 1) :
               /\ QuietAt(serial, k)
               /\ abandoned' = CharsOf(serial, k - 1)
               /\ serial' = IF k = Len(serial) + 1 THEN <<>>
                            ELSE << <<serial[k][1] - MSG_TIMER_TIMEOUT,
                                      serial[k][2]>> >>
                                   \o SubSeq(serial, k + 1, Len(serial))
               /\ UNCHANGED <<pc, tunables, relays, locals, eeprom>>]_vars
  /\ [][(HostMsgCall /\ out' # <<>> /\ out'[1][1] = "Received host message")
          => LET n == Len(serial) - Len(serial')
             IN  /\ serial[n][2] = LINE_FEED
                 /\ out'[1] = Received(CharsOf(serial, n - 1))
                 /\ pc = "handshake"
                      => (pc' = "idle"
                            <=> StrStr(CharsOf(serial, n - 1), ready_str))
                 /\ pc = "idle"
                      => (pc' = "voc_poll"
                            <=> StrStr(CharsOf(serial, n - 1), go_str))]_vars

\* the host paused for the length of the timeout after "Re": the sketch
\* has dropped "Re", has then received "ady" and is still in the handshake
C37_Witness ==
  /\ pc = "handshake"
  /\ abandoned = <<"R", "e">>
  /\ serial = <<>>
  /\ out = << Received(<<"a", "d", "y">>), <<"Ready">> >>

(***************************************************************************)
(* C38: while the sketch runs, relay_active changes only in a step that    *)
(* leaves at EEPROM address 44 the value it is then derived from (a        *)
(* WRITE_EEPROM to that address); at every moment relay_active is the      *)
(* level get_relay_active_val would return from the EEPROM as it is, also  *)
(* when the EEPROM lacks the magic value or its entry count does not reach *)
(* address 44; and relay_inactive is the opposite level of relay_active.   *)
(***************************************************************************)
\* the levels setup() may load from the store at a reset
BootPolarities(store) ==
  {get_relay_active_val(store, count) : count \in EepromCounts(store)}

SetupRuns == pc' = "handshake" /\ out' = Banner

C38_LivePolarityPersisted ==
  /\ [][(relay_active' # relay_active /\ ~SetupRuns)
          => /\ EepromGet(eeprom', EEPROM_RELAY_ACTIVE_HIGH_ADDR) # <<>>
             /\ relay_active'
                  = RelayActiveOf(EepromGet(eeprom',
                                            EEPROM_RELAY_ACTIVE_HIGH_ADDR)[1])]_vars
  /\ [](relay_active \in BootPolarities(eeprom))
  /\ [](relay_inactive = Opposite(relay_active))

(***************************************************************************)
(* C39: in the sweep loop the weighted average is taken of two CH1 values  *)
(* in 0 .. 4095: its numerator, computed without bounds, is at most 32767, *)
(* the 16-bit result is the exact quotient and lies between the smaller    *)
(* and the larger of the two.  An iteration rewrites the CH1 value of slot *)
(* pt_num - 1 with that average exactly when the iteration before it kept  *)
(* its measurement or corrected a voltage decrease (and never when it      *)
(* discarded it), unless it overwrites the slot itself with a correction.  *)
(* Every voltage and current in the point lines of the report is in        *)
(* 0 .. 4095.                                                              *)
(***************************************************************************)
SweepIter == pc = "sweep" /\ iters' = iters + 1

\* the iteration before retained its measurement (a keep or a correction)
AfterRetain ==
  /\ iters > 0
  /\ pt_num - 1 \in Slots
  /\ kept_at[pt_num - 1] = num_meas

AfterDiscard == num_meas \in discarded

Numerator == adc_ch1_val_prev * CH1_1ST_WEIGHT + ch1_read' * CH1_2ND_WEIGHT
               + AVG_WEIGHT

Between(x, a, b) ==
  (IF a < b THEN a ELSE b) <= x /\ x <= (IF a < b THEN b ELSE a)

InAdcRange(x) == 0 <= x /\ x <= ADC_MAX - 1

C39_InterpolationBounded ==
  /\ [][(SweepIter /\ AfterRetain)
          => /\ InAdcRange(adc_ch1_val_prev) /\ InAdcRange(ch1_read')
             /\ Numerator <= 32767
             /\ Interpolate(adc_ch1_val_prev, ch1_read')
                  = Numerator \div TOTAL_WEIGHT
             /\ Between(Interpolate(adc_ch1_val_prev, ch1_read'),
                        adc_ch1_val_prev, ch1_read')
             /\ corrections' = corrections
                  => adc_ch1_vals'[pt_num - 1] = Numerator \div TOTAL_WEIGHT]_vars
  /\ [][(SweepIter /\ ~AfterRetain /\ corrections' = corrections)
          => adc_ch1_vals' = adc_ch1_vals]_vars
  /\ [][SweepIter => (AfterRetain <=> ~(iters = 0 \/ AfterDiscard))]_vars
  /\ [](pc = "complete"
          => \A k \in 1 .. pt_num :
               InAdcRange(out[3 + k][3]) /\ InAdcRange(out[3 + k][5]))

\* a sweep with a discard and a correction is reported; its point 1 was
\* retained before the last measurement, so that its CH1 value is an
\* average, and the average is that of two samples of ADC_MAX - 1
C39_Witness ==
  /\ pc = "complete"
  /\ pt_num >= 2
  /\ discarded # {}
  /\ corrections > 0
  /\ kept_at[1] > 0
  /\ kept_at[1] < num_meas
  /\ out[5][5] = ADC_MAX - 1

(***************************************************************************)
(* C40: when a Go has been accepted and the Voc polling is about to begin, *)
(* the retained arrays are all zero, pt_num = 1, num_meas = 1,             *)
(* num_discarded_pts = 0 and update_prev_ch1 and poll_timeout are false;   *)
(* and a sweep whose ADC reads were those of the sweep before it, with no  *)
(* Config line between the two, reports the payload lines of the sweep     *)
(* before: the Isc line, the point lines, the Voc line and the numbers of  *)
(* measurements and of recorded points.                                    *)
(***************************************************************************)
\* of a whole report: the Isc line, the point lines, the Voc line, the
\* number of measurements and the number of recorded points
Payload(report) ==
  LET n == Len(report) - 13
  IN  SubSeq(report, 3, n + 4) \o SubSeq(report, n + 6, n + 7)

SweepBegins == pc = "voc_poll" /\ ii = 0 /\ samples = <<>>

SameFeedAsBefore ==
  pc = "complete" /\ last_sweep # <<>> /\ reads = last_sweep[1]

C40_FreshSweepState ==
  /\ SweepBegins
       => /\ adc_ch0_vals = ZeroArray
          /\ adc_ch1_vals = ZeroArray
          /\ pt_num = 1
          /\ num_meas = 1
          /\ num_discarded_pts = 0
          /\ ~update_prev_ch1
          /\ ~poll_timeout
  /\ SameFeedAsBefore => Payload(out) = Payload(last_sweep[2])

=============================================================================
